---------------------------- MODULE Spec2Model ----------------------------
(***************************************************************************)
(* Fortexa: the payment engine (Orchestrator), the fraud-detection         *)
(* service and the settlement engine (Batcher), with the Kafka payments    *)
(* topic between them and the payments/settlements tables behind the       *)
(* settlement engine.                                                      *)
(***************************************************************************)
EXTENDS Integers, Sequences, FiniteSets, TLC

(***************************************************************************)
(* Bounds of the model.                                                    *)
(***************************************************************************)
MaxPayments == 1
MaxLog == 6
MaxRedeliver == 1
MaxMsgBytes == 1
NumPartitions == 2
MaxRefundRequests == 1

PaymentIds == 1..MaxPayments
Partitions == 0..(NumPartitions - 1)
Writers == {"gateway", "engine", "fraud"}

\* payment methods a request can carry: one with a processor, one without
Methods == {"CREDIT_CARD", "WALLET"}

VARIABLES
    topic,        \* payments topic: [Partitions -> Seq(event)]
    lbBytes,      \* per writer, the LeastBytes balancer's byte counters
    nextPid,      \* payments created so far by the gateway
    method,       \* payment id -> payment_method_type of the request
    orchOffset,   \* payment-engine group: next offset per partition
    orchInflight, \* goroutines spawned by Start and not yet run: {<<part, idx>>}
    processed,    \* messages for which processMessage has run at least once
    succeeded,    \* messages one run of processMessage handled with every write done
    redelivered,  \* number of redeliveries so far
    calls,        \* payment id -> [authorize, capture, refund] processor calls
    observed,     \* payment id -> statuses of the events the engine emitted
    fraudOffset,  \* fraud-detection group: next offset per partition
    fraudSeen,    \* payment ids whose fraud.detected the engine has consumed
    written,      \* payment id -> types of the events written to the topic for
                  \* it, by any writer, in the order of the writes
    fraudTopic,   \* the topic cfg.Kafka.FraudTopic names
    fraudPositive,\* messages the fraud analyzer gave a positive verdict: {<<part, idx>>}
    fraudCheck    \* the FraudCheck the latest AnalyzePayment returned, if any

orchVars == <<topic, lbBytes, nextPid, method, orchOffset, orchInflight,
              processed, succeeded, redelivered, calls, observed, fraudOffset,
              fraudSeen, written, fraudTopic, fraudPositive, fraudCheck>>

(***************************************************************************)
(* Bounds of the settlement engine's part of the model.                    *)
(***************************************************************************)
MaxTime == 3
MaxRestarts == 1
MaxSettlements == 2
MaxBatchTime == 5
MaxDuplicates == 1

VARIABLES
    payments,        \* payments table: id -> row
    settlementReady, \* ids of the rows with settlement_ready = true
    settlements,     \* the Settlements CreateSettlementBatch built, in order:
                     \* the settlements table, when the repository stores them
    settlementEvents,\* settlement ids written to the settlement topic
    now,             \* wall clock, in half days
    nextTick,        \* when the 24 h ticker of the running process fires next
    tickPending,     \* a tick waits in ticker.C (buffer of one)
    restarts,        \* restarts of the settlement engine so far
    batchPc,         \* createSettlementBatches: "start", "idle", "groups",
                     \* "publish", "process", "complete"
    batchEnd,        \* endDate of the running batch (startDate is a day before)
    batchSummaries,  \* summaries of the running batch the loop has not reached
    batchOutcome,    \* per summary of the latest batch, how its iteration ended
    batchCreated,    \* settlements the running batch returned, not yet published
    batchNo          \* batches run so far

settleVars == <<payments, settlementReady, settlements, settlementEvents, now,
                nextTick, tickPending, restarts, batchPc, batchEnd,
                batchSummaries, batchOutcome, batchCreated, batchNo>>

(***************************************************************************)
(* Bound of the gateway's part of the model.                               *)
(***************************************************************************)
MaxRequests == 3

VARIABLES
    gwEvents,     \* events the gateway wrote to the payments topic, in order
    gwResponses,  \* what the gateway answered, request by request
    gwIds         \* ids uuid.New() has handed out in the gateway so far

gwVars == <<gwEvents, gwResponses, gwIds>>

(***************************************************************************)
(* The processes as they run: the settlement engine's consumer on the      *)
(* topic it is configured with, and the root context with the worker loops *)
(* that watch it.                                                          *)
(***************************************************************************)
VARIABLES
    duplicates,    \* <<row id, batch runs so far>> of the captured events the
                   \* settlement engine's consumer was fed again
    batcherTopic,  \* name of the topic the settlement engine's reader reads
                   \* ("" until the process has started)
    batcherOffset, \* settlement-engine group: next offset per partition
    batcherSeen,   \* messages ReadMessage returned to consumePaymentEvents
    ctxDone,       \* the root context has been cancelled
    loopPc         \* worker loop -> "select", "read", "exited"

runVars == <<duplicates, batcherTopic, batcherOffset, batcherSeen, ctxDone, loopPc>>

(***************************************************************************)
(* Calls of functions that keep no state, with what they returned.         *)
(***************************************************************************)
VARIABLES
    cardAuth,      \* the latest call of CardProcessor.Authorize, if any
    refundCalls,   \* the calls of processor.Refund, in order: the payment id,
                   \* the amount passed, and the amount of the payment
    feeTrip        \* the applications of the fee formula so far: to a total,
                   \* and then to the net it gave

callVars == <<cardAuth, refundCalls, feeTrip>>

(***************************************************************************)
(* What main of the settlement engine decided when the process started.    *)
(***************************************************************************)
VARIABLES
    startup        \* mockMode: MOCK_MODE was "true"; dbFailed: NewDBRepository
                   \* returned an error; repo: the repository handed to the
                   \* processor, "db" or "mock"; eventsBefore: how many
                   \* settlement events the topic held when the process started

mainVars == <<startup>>

vars == <<orchVars, settleVars, gwVars, runVars, callVars, mainVars>>

----------------------------------------------------------------------------
(***************************************************************************)
(* The Kafka writers.  Every writer of the repository is configured with   *)
(* Balancer: &kafka.LeastBytes{}: the partition is the one this writer has *)
(* sent the fewest bytes to (first such index), whatever the message key.  *)
(***************************************************************************)
LeastBytes(counters) ==
    CHOOSE i \in Partitions :
        \A j \in Partitions :
            \/ counters[i] < counters[j]
            \/ (counters[i] = counters[j] /\ i <= j)

LogSize(t) ==
    LET RECURSIVE Sum(_)
        Sum(S) == IF S = {} THEN 0
                  ELSE LET x == CHOOSE y \in S : TRUE
                       IN  Len(t[x]) + Sum(S \ {x})
    IN  Sum(Partitions)

\* kafka.Writer.WriteMessages: st = [topic, lb]; the balancer counts the bytes
\* when the message is assigned, the append happens only if the write succeeds
WriteMessages(st, w, ev, sz, ok) ==
    LET part == LeastBytes(st.lb[w])
    IN  [topic |-> IF ok THEN [st.topic EXCEPT ![part] = Append(@, ev)]
                         ELSE st.topic,
         lb    |-> [st.lb EXCEPT ![w][part] = @ + sz]]

\* models.PaymentEvent as marshalled: the message key, the type, and the
\* snapshot of the payment: its id, merchant, currency, amount (in cents),
\* status, and of its metadata the entries "error" and "refund_amount" (the
\* latter <<>> when absent or not a number)
PaymentEvent(type, payment, status) ==
    [key |-> payment.pid, type |-> type, pid |-> payment.pid, status |-> status,
     error |-> "", merchant |-> payment.merchant, currency |-> payment.currency,
     amount |-> payment.amount, refundAmount |-> payment.refundAmount]

\* the event publishFailedEvent builds: status FAILED, metadata["error"]
FailedEvent(type, payment, errorMessage) ==
    [PaymentEvent(type, payment, "FAILED") EXCEPT !.error = errorMessage]

\* statuses of the events of a write sequence that reached the topic
Emitted(evs, oks) ==
    LET RECURSIVE E(_)
        E(i) == IF i > Len(evs) THEN <<>>
                ELSE (IF oks[i] THEN <<evs[i].status>> ELSE <<>>) \o E(i + 1)
    IN  E(1)

\* types of the events of a write sequence that reached the topic
EmittedTypes(evs, oks) ==
    LET RECURSIVE E(_)
        E(i) == IF i > Len(evs) THEN <<>>
                ELSE (IF oks[i] THEN <<evs[i].type>> ELSE <<>>) \o E(i + 1)
    IN  E(1)

----------------------------------------------------------------------------
(***************************************************************************)
(* float64 arithmetic, as the settlement processor's money computations   *)
(* use it.  A natural number is a sequence of limbs (least significant     *)
(* first, no zero limb on top); a positive double is m * 2^e with m of     *)
(* exactly 53 bits; zero has the empty mantissa.                           *)
(***************************************************************************)
LimbBits == 15
LimbBase == 2^LimbBits

RECURSIVE BFromInt(_)
BFromInt(n) == IF n = 0 THEN <<>> ELSE <<n % LimbBase>> \o BFromInt(n \div LimbBase)

RECURSIVE BToInt(_)
BToInt(a) == IF a = <<>> THEN 0 ELSE Head(a) + LimbBase * BToInt(Tail(a))

RECURSIVE BTrim(_)
BTrim(a) == IF a = <<>> \/ a[Len(a)] # 0 THEN a ELSE BTrim(SubSeq(a, 1, Len(a) - 1))

Limb(a, i) == IF i <= Len(a) THEN a[i] ELSE 0

BAdd(a, b) ==
    LET n == IF Len(a) > Len(b) THEN Len(a) ELSE Len(b)
        RECURSIVE A(_, _)
        A(i, c) == IF i > n THEN (IF c = 0 THEN <<>> ELSE <<c>>)
                   ELSE LET v == Limb(a, i) + Limb(b, i) + c
                        IN  <<v % LimbBase>> \o A(i + 1, v \div LimbBase)
    IN  A(1, 0)

\* a - b for a >= b
BSub(a, b) ==
    LET RECURSIVE S(_, _)
        S(i, br) == IF i > Len(a) THEN <<>>
                    ELSE LET v == a[i] - Limb(b, i) - br
                         IN  IF v < 0 THEN <<v + LimbBase>> \o S(i + 1, 1)
                                      ELSE <<v>> \o S(i + 1, 0)
    IN  BTrim(S(1, 0))

\* -1, 0 or 1
BCmp(a, b) ==
    LET RECURSIVE C(_)
        C(i) == IF i = 0 THEN 0
                ELSE IF a[i] < b[i] THEN -1
                ELSE IF a[i] > b[i] THEN 1
                ELSE C(i - 1)
    IN  IF Len(a) < Len(b) THEN -1
        ELSE IF Len(a) > Len(b) THEN 1
        ELSE C(Len(a))

\* a * k for 0 <= k < LimbBase
BMulSmall(a, k) ==
    LET RECURSIVE M(_, _)
        M(i, c) == IF i > Len(a) THEN (IF c = 0 THEN <<>> ELSE <<c>>)
                   ELSE LET v == a[i] * k + c
                        IN  <<v % LimbBase>> \o M(i + 1, v \div LimbBase)
    IN  IF k = 0 THEN <<>> ELSE M(1, 0)

Zeros(n) == [i \in 1..n |-> 0]

BMul(a, b) ==
    LET RECURSIVE M(_)
        M(j) == IF j > Len(b) THEN <<>>
                ELSE LET t == BMulSmall(a, b[j])
                     IN  BAdd(IF t = <<>> THEN <<>> ELSE Zeros(j - 1) \o t, M(j + 1))
    IN  M(1)

\* quotient and remainder of a by d, 0 < d < LimbBase
BDivSmall(a, d) ==
    LET RECURSIVE D(_, _)
        D(i, r) == IF i = 0 THEN [q |-> <<>>, r |-> r]
                   ELSE LET cur  == r * LimbBase + a[i]
                            rest == D(i - 1, cur % d)
                        IN  [q |-> rest.q \o <<cur \div d>>, r |-> rest.r]
        res == D(Len(a), 0)
    IN  [q |-> BTrim(res.q), r |-> res.r]

RECURSIVE BitLenSmall(_)
BitLenSmall(n) == IF n = 0 THEN 0 ELSE 1 + BitLenSmall(n \div 2)

BBitLen(a) == IF a = <<>> THEN 0
              ELSE LimbBits * (Len(a) - 1) + BitLenSmall(a[Len(a)])

BShl(a, n) ==
    IF a = <<>> THEN <<>>
    ELSE Zeros(n \div LimbBits) \o BMulSmall(a, 2^(n % LimbBits))

BShr(a, n) ==
    LET k == n \div LimbBits
    IN  IF k >= Len(a) THEN <<>>
        ELSE BDivSmall(SubSeq(a, k + 1, Len(a)), 2^(n % LimbBits)).q

FZero == [m |-> <<>>, e |-> 0]

\* m0 * 2^e rounded to 53 bits was decided; carry into a 54th bit renormalises
FNormal(m1, e) ==
    IF BBitLen(m1) > 53 THEN [m |-> BShr(m1, 1), e |-> e + 1]
                        ELSE [m |-> m1, e |-> e]

\* round to nearest, ties to even: c compares the dropped bits with one half,
\* r is the remainder of the division below them
FNearest(m0, c, r, e) ==
    IF c > 0 \/ (c = 0 /\ r # 0) \/ (c = 0 /\ r = 0 /\ m0[1] % 2 = 1)
    THEN FNormal(BAdd(m0, <<1>>), e)
    ELSE FNormal(m0, e)

FDrop(q, m0, r, t, e) ==
    FNearest(m0, BCmp(BSub(q, BShl(m0, t)), BShl(<<1>>, t - 1)), r, e + t)

FKeep53(q, r, t, e) == FDrop(q, BShr(q, t), r, t, e)

FQuotient(qr, e) == FKeep53(qr.q, qr.r, BBitLen(qr.q) - 53, e)

FScaled(n, d, s, e) == FQuotient(BDivSmall(BShl(n, s), d), e - s)

\* the double nearest to (n / d) * 2^e, ties to even: n a natural, 0 < d < LimbBase
FRound(n, d, e) ==
    IF n = <<>> THEN FZero
    ELSE FScaled(n, d, IF BBitLen(n) >= 62 THEN 0 ELSE 62 - BBitLen(n), e)

FFromDec(n, d) == FRound(BFromInt(n), d, 0)

FMul(x, y) == FRound(BMul(x.m, y.m), 1, x.e + y.e)

\* x / float64(d) for an integer d
FDivInt(x, d) == FRound(x.m, d, x.e)

\* x - y for x >= y >= 0
FSub(x, y) ==
    IF y.m = <<>> THEN x
    ELSE LET e == IF x.e < y.e THEN x.e ELSE y.e
         IN  FRound(BSub(BShl(x.m, x.e - e), BShl(y.m, y.e - e)), 1, e)

\* x < y for x, y >= 0
FLess(x, y) ==
    IF y.m = <<>> THEN FALSE
    ELSE IF x.m = <<>> THEN TRUE
    ELSE LET e == IF x.e < y.e THEN x.e ELSE y.e
         IN  BCmp(BShl(x.m, x.e - e), BShl(y.m, y.e - e)) < 0

\* math.Round for x >= 0 (half away from zero), as an integer
GoRound(x) ==
    IF x.m = <<>> THEN 0
    ELSE IF x.e >= 0 THEN BToInt(BShl(x.m, x.e))
    ELSE LET t   == 0 - x.e
             q   == BShr(x.m, t)
             rem == BSub(x.m, BShl(q, t))
         IN  BToInt(q) + (IF BCmp(rem, BShl(<<1>>, t - 1)) >= 0 THEN 1 ELSE 0)

\* roundToTwoDecimals(value) = math.Round(value*100) / 100; the result is the
\* double nearest to Cents/100, kept here by its number of cents
RoundToTwoDecimalsCents(value) == GoRound(FMul(value, FFromDec(100, 1)))

roundToTwoDecimals(value) == FFromDec(RoundToTwoDecimalsCents(value), 100)

----------------------------------------------------------------------------
(***************************************************************************)
(* The payments table the settlement engine reads.  Amounts are            *)
(* DECIMAL(12,2), kept in cents; created is created_at in half days.  No   *)
(* service of the repository writes the status column.                     *)
(***************************************************************************)
Day == 2

PaymentRows ==
    <<[merchant |-> "M1", currency |-> "USD", amount |-> 10000, status |-> "CAPTURED", created |-> 0],
      [merchant |-> "M1", currency |-> "USD", amount |-> 20000, status |-> "CAPTURED", created |-> 0],
      [merchant |-> "M1", currency |-> "USD", amount |-> 70025, status |-> "CAPTURED", created |-> 0],
      [merchant |-> "M1", currency |-> "EUR", amount |-> 5000,  status |-> "CAPTURED", created |-> 0],
      [merchant |-> "M2", currency |-> "EUR", amount |-> 16060, status |-> "CAPTURED", created |-> 2]>>

RowIds == DOMAIN PaymentRows

\* the statuses a consumed event's payment snapshot carries
SnapshotStatuses == {"CAPTURED", "AUTHORIZED"}

\* the loops that watch the root context: PaymentHandler.Start, the fraud
\* service's processPayments, the settlement engine's consumePaymentEvents
ReaderLoops == {"orchestrator", "fraud", "consumer"}

\* those, and SettlementHandler.Start, which blocks until the context is done
WorkerLoops == ReaderLoops \cup {"start"}

Init ==
    /\ payments = PaymentRows
    /\ settlementReady = {}
    /\ settlements = <<>>
    /\ settlementEvents = <<>>
    /\ now = 1
    /\ nextTick = 1 + Day
    /\ tickPending = FALSE
    /\ restarts = 0
    /\ batchPc = "start"
    /\ batchEnd = 1
    /\ batchSummaries = {}
    /\ batchOutcome = <<>>
    /\ batchCreated = <<>>
    /\ batchNo = 0
    /\ topic = [p \in Partitions |-> <<>>]
    /\ lbBytes = [w \in Writers |-> [p \in Partitions |-> 0]]
    /\ nextPid = 1
    /\ method = [p \in PaymentIds |-> "CREDIT_CARD"]
    /\ orchOffset = [p \in Partitions |-> 0]
    /\ orchInflight = {}
    /\ processed = {}
    /\ succeeded = {}
    /\ redelivered = 0
    /\ calls = [p \in PaymentIds |-> [authorize |-> 0, capture |-> 0, refund |-> 0]]
    /\ observed = [p \in PaymentIds |-> <<>>]
    /\ fraudOffset = [p \in Partitions |-> 0]
    /\ fraudSeen = {}
    /\ written = [p \in PaymentIds |-> <<>>]
    /\ fraudTopic = <<>>
    /\ fraudPositive = {}
    /\ fraudCheck = <<>>
    /\ gwEvents = <<>>
    /\ gwResponses = <<>>
    /\ gwIds = 0
    /\ duplicates = {}
    /\ batcherTopic = ""
    /\ batcherOffset = [p \in Partitions |-> 0]
    /\ batcherSeen = {}
    /\ ctxDone = FALSE
    /\ loopPc = [w \in WorkerLoops |-> "select"]
    /\ cardAuth = <<>>
    /\ refundCalls = <<>>
    /\ feeTrip = <<>>
    /\ startup = [mockMode |-> FALSE, dbFailed |-> FALSE, repo |-> "db",
                  eventsBefore |-> 0]

----------------------------------------------------------------------------
(***************************************************************************)
(* API gateway: POST /payments/initiate writes one payment.initiated,      *)
(* keyed by the fresh payment id.  (A failed write answers 500 and leaves  *)
(* the topic as it was.)                                                   *)
(***************************************************************************)
\* the payment the handler builds from the request body
InitiatedPayment(pid) ==
    [pid |-> pid, merchant |-> "M1", currency |-> "USD", amount |-> 125000,
     refundAmount |-> <<>>]

InitiatePayment ==
    /\ nextPid <= MaxPayments
    /\ LogSize(topic) < MaxLog
    /\ \E m \in Methods, sz \in 1..MaxMsgBytes :
         LET ev == PaymentEvent("payment.initiated", InitiatedPayment(nextPid), "INITIATED")
             st == WriteMessages([topic |-> topic, lb |-> lbBytes],
                                 "gateway", ev, sz, TRUE)
         IN  /\ topic' = st.topic
             /\ lbBytes' = st.lb
             /\ method' = [method EXCEPT ![nextPid] = m]
    /\ written' = [written EXCEPT ![nextPid] = Append(@, "payment.initiated")]
    /\ nextPid' = nextPid + 1
    /\ UNCHANGED <<orchOffset, orchInflight, processed, succeeded, redelivered,
                   calls, observed, fraudOffset, fraudSeen>>
    /\ UNCHANGED <<fraudTopic, fraudPositive, fraudCheck>>
    /\ UNCHANGED <<settleVars, gwVars, runVars, callVars, mainVars>>

\* the refund requests on the topic so far
RefundRequests ==
    {<<p, i>> \in Partitions \X (1..MaxLog) :
        i <= Len(topic[p]) /\ topic[p][i].type = "payment.refund.requested"}

\* statuses the snapshot of a refund request can carry
RefundSnapshotStatuses == {"INITIATED", "CAPTURED"}

\* amounts the snapshot can carry, and what its metadata can hold under
\* "refund_amount": nothing, or any JSON number
RefundSnapshotAmounts == {125000, 50000}
RefundAmounts == {<<>>, <<50000>>, <<125000>>, <<200000>>, <<0>>, <<-100>>}

(***************************************************************************)
(* A payment.refund.requested message for an existing payment reaches the  *)
(* payments topic, keyed by the payment id.  The gateway's RequestRefund   *)
(* writes none; the message is the input of the engine's refund handler,   *)
(* from whatever producer, on whatever partition.                          *)
(***************************************************************************)
RefundRequested(part) ==
    /\ Cardinality(RefundRequests) < MaxRefundRequests
    /\ LogSize(topic) < MaxLog
    /\ \E pid \in 1..(nextPid - 1), st \in RefundSnapshotStatuses,
          amt \in RefundSnapshotAmounts, ra \in RefundAmounts :
         /\ topic' = [topic EXCEPT ![part] =
                          Append(@, PaymentEvent("payment.refund.requested",
                                                 [InitiatedPayment(pid) EXCEPT
                                                      !.amount = amt,
                                                      !.refundAmount = ra],
                                                 st))]
         /\ written' = [written EXCEPT ![pid] = Append(@, "payment.refund.requested")]
    /\ UNCHANGED <<lbBytes, nextPid, method, orchOffset, orchInflight, processed,
                   succeeded, redelivered, calls, observed, fraudOffset, fraudSeen>>
    /\ UNCHANGED <<fraudTopic, fraudPositive, fraudCheck>>
    /\ UNCHANGED <<settleVars, gwVars, runVars, callVars, mainVars>>

(***************************************************************************)
(* Payment engine, PaymentHandler.Start: ReadMessage on a reader with a    *)
(* GroupID commits the offset as it returns the message; the message is    *)
(* then handed to a new goroutine.                                         *)
(***************************************************************************)
OrchRead(part) ==
    /\ orchOffset[part] < Len(topic[part])
    /\ orchOffset' = [orchOffset EXCEPT ![part] = @ + 1]
    /\ orchInflight' = orchInflight \cup {<<part, orchOffset[part] + 1>>}
    /\ UNCHANGED <<topic, lbBytes, nextPid, method, processed, succeeded,
                   redelivered, calls, observed, fraudOffset, fraudSeen, written>>
    /\ UNCHANGED <<fraudTopic, fraudPositive, fraudCheck>>
    /\ UNCHANGED <<settleVars, gwVars, runVars, callVars, mainVars>>

\* at-least-once delivery: the log hands an already delivered message to the
\* reader again
OrchRedeliver(part, i) ==
    /\ redelivered < MaxRedeliver
    /\ i \in 1..orchOffset[part]
    /\ <<part, i>> \in processed
    /\ <<part, i>> \notin orchInflight
    /\ orchInflight' = orchInflight \cup {<<part, i>>}
    /\ redelivered' = redelivered + 1
    /\ UNCHANGED <<topic, lbBytes, nextPid, method, orchOffset, processed,
                   succeeded, calls, observed, fraudOffset, fraudSeen, written>>
    /\ UNCHANGED <<fraudTopic, fraudPositive, fraudCheck>>
    /\ UNCHANGED <<settleVars, gwVars, runVars, callVars, mainVars>>

\* processors.PaymentProcessorFactory: which kinds have an adapter
HasProcessor(kind) == kind \in {"CREDIT_CARD", "DEBIT_CARD", "UPI", "BANK_TRANSFER"}

\* CardProcessor.Authorize with the card details the handler fills in: expired
\* (by the date of the call), approved, or declined by the issuer
AuthorizeOutcomes == {"approved", "declined", "expired"}

\* the goroutine of message m ends
Finish(m) ==
    /\ orchInflight' = orchInflight \ {m}
    /\ processed' = processed \cup {m}

\* the writes evs (in order) of the handler of message m, with sizes szs and
\* results oks
Publish(m, evs, szs, oks) ==
    LET RECURSIVE W(_, _)
        W(st, i) == IF i > Len(evs) THEN st
                    ELSE W(WriteMessages(st, "engine", evs[i], szs[i], oks[i]), i + 1)
        st == W([topic |-> topic, lb |-> lbBytes], 1)
    IN  /\ topic' = st.topic
        /\ lbBytes' = st.lb
        /\ observed' = [observed EXCEPT ![evs[1].pid] = @ \o Emitted(evs, oks)]
        /\ written' = [written EXCEPT ![evs[1].pid] = @ \o EmittedTypes(evs, oks)]
        /\ succeeded' = IF \A i \in 1..Len(oks) : oks[i]
                        THEN succeeded \cup {m} ELSE succeeded

\* publishFailedEvent: the snapshot with status FAILED and the error message
\* in its metadata, under the given type
PublishFailed(m, payment, type, errorMessage) ==
    \E sz \in 1..MaxMsgBytes, ok \in BOOLEAN :
        Publish(m, <<FailedEvent(type, payment, errorMessage)>>, <<sz>>, <<ok>>)

\* the error PaymentProcessorFactory returns for a kind without an adapter
ErrInvalidPaymentMethod == "invalid payment method"

\* the errorMsg handlePaymentAuthorizationRequested publishes: err.Error()
\* when Authorize returned an error (it does on every refusal), else the
\* response's Error text
AuthorizationErrorMsg(res) ==
    IF res = "declined" THEN "payment failed" ELSE "card expired"

HandlePaymentInitiated(m) ==
    LET ev == topic[m[1]][m[2]] IN
    /\ m \in orchInflight
    /\ ev.type = "payment.initiated"
    /\ LogSize(topic) < MaxLog
    /\ \E sz \in 1..MaxMsgBytes, ok \in BOOLEAN :
         Publish(m, <<PaymentEvent("payment.authorization.requested", ev, ev.status)>>,
                 <<sz>>, <<ok>>)
    /\ Finish(m)
    /\ UNCHANGED <<nextPid, method, orchOffset, redelivered, calls,
                   fraudOffset, fraudSeen>>
    /\ UNCHANGED <<fraudTopic, fraudPositive, fraudCheck>>
    /\ UNCHANGED <<settleVars, gwVars, runVars, callVars, mainVars>>

HandlePaymentAuthorizationRequested(m) ==
    LET ev == topic[m[1]][m[2]] IN
    /\ m \in orchInflight
    /\ ev.type = "payment.authorization.requested"
    /\ LogSize(topic) + 2 <= MaxLog
    /\ IF ~HasProcessor(method[ev.pid])
       THEN /\ PublishFailed(m, ev, "payment.authorization.failed",
                              ErrInvalidPaymentMethod)
            /\ UNCHANGED calls
       ELSE /\ calls' = [calls EXCEPT ![ev.pid].authorize = @ + 1]
            /\ \E res \in AuthorizeOutcomes :
                 IF res # "approved"
                 THEN PublishFailed(m, ev, "payment.authorization.failed",
                                    AuthorizationErrorMsg(res))
                 ELSE \E s1, s2 \in 1..MaxMsgBytes, ok1, ok2 \in BOOLEAN :
                        Publish(m, <<PaymentEvent("payment.authorized", ev, "AUTHORIZED"),
                                  PaymentEvent("payment.capture.requested", ev, "AUTHORIZED")>>,
                                <<s1, s2>>, <<ok1, ok2>>)
    /\ Finish(m)
    /\ UNCHANGED <<nextPid, method, orchOffset, redelivered, fraudOffset, fraudSeen>>
    /\ UNCHANGED <<fraudTopic, fraudPositive, fraudCheck>>
    /\ UNCHANGED <<settleVars, gwVars, runVars, callVars, mainVars>>

CaptureEventsCapturedOnly(payment) ==
    <<PaymentEvent("payment.captured", payment, "CAPTURED")>>

\* what handlePaymentCaptureRequested publishes after Capture returned nil:
\* payment.captured, then payment.settlement.requested with the same snapshot
CaptureEvents(payment) ==
    <<PaymentEvent("payment.captured", payment, "CAPTURED"),
      PaymentEvent("payment.settlement.requested", payment, "CAPTURED")>>

HandlePaymentCaptureRequested(m) ==
    LET ev == topic[m[1]][m[2]] IN
    /\ m \in orchInflight
    /\ ev.type = "payment.capture.requested"
    /\ LogSize(topic) + 2 <= MaxLog
    /\ IF ~HasProcessor(method[ev.pid])
       THEN /\ PublishFailed(m, ev, "payment.capture.failed",
                              ErrInvalidPaymentMethod)
            /\ UNCHANGED calls
       ELSE \* Capture returns nil in every adapter
            /\ calls' = [calls EXCEPT ![ev.pid].capture = @ + 1]
            /\ \E s1, s2 \in 1..MaxMsgBytes, ok1, ok2 \in BOOLEAN :
                 Publish(m, CaptureEvents(ev), <<s1, s2>>, <<ok1, ok2>>)
    /\ Finish(m)
    /\ UNCHANGED <<nextPid, method, orchOffset, redelivered, fraudOffset, fraudSeen>>
    /\ UNCHANGED <<fraudTopic, fraudPositive, fraudCheck>>
    /\ UNCHANGED <<settleVars, gwVars, runVars, callVars, mainVars>>

RefundedPaymentNet(payment, refundAmount) ==
    [payment EXCEPT !.amount = @ - refundAmount, !.refundAmount = <<refundAmount>>]

\* the snapshot of payment.refunded: the request's, with the amount handed
\* to Refund under metadata["refund_amount"]
RefundedPayment(payment, refundAmount) ==
    [payment EXCEPT !.refundAmount = <<refundAmount>>]

\* refundAmount: metadata["refund_amount"] when it is a number, else the
\* payment's amount
RefundAmount(payment) ==
    IF payment.refundAmount # <<>> THEN payment.refundAmount[1] ELSE payment.amount

\* handlePaymentRefundRequested: the snapshot's status is not looked at
HandlePaymentRefundRequested(m) ==
    LET ev == topic[m[1]][m[2]] IN
    /\ m \in orchInflight
    /\ ev.type = "payment.refund.requested"
    /\ LogSize(topic) < MaxLog
    /\ IF ~HasProcessor(method[ev.pid])
       THEN /\ PublishFailed(m, ev, "payment.refund.failed",
                              ErrInvalidPaymentMethod)
            /\ UNCHANGED <<calls, refundCalls>>
       ELSE \* Refund returns nil in every adapter
            /\ calls' = [calls EXCEPT ![ev.pid].refund = @ + 1]
            /\ refundCalls' = Append(refundCalls,
                                     [pid |-> ev.pid, amount |-> RefundAmount(ev),
                                      paymentAmount |-> ev.amount])
            /\ \E sz \in 1..MaxMsgBytes, ok \in BOOLEAN :
                 Publish(m, <<PaymentEvent("payment.refunded",
                                           RefundedPayment(ev, RefundAmount(ev)),
                                           "REFUNDED")>>,
                         <<sz>>, <<ok>>)
    /\ Finish(m)
    /\ UNCHANGED <<nextPid, method, orchOffset, redelivered, fraudOffset, fraudSeen>>
    /\ UNCHANGED <<fraudTopic, fraudPositive, fraudCheck>>
    /\ UNCHANGED <<settleVars, gwVars, runVars, cardAuth, feeTrip, mainVars>>

\* processMessage's default branch: every other type, fraud.detected included
HandleUnknown(m) ==
    LET ev == topic[m[1]][m[2]] IN
    /\ m \in orchInflight
    /\ ev.type \notin {"payment.initiated", "payment.authorization.requested",
                       "payment.capture.requested", "payment.refund.requested"}
    /\ fraudSeen' = IF ev.type = "fraud.detected" THEN fraudSeen \cup {ev.pid}
                    ELSE fraudSeen
    /\ succeeded' = succeeded \cup {m}
    /\ Finish(m)
    /\ UNCHANGED <<topic, lbBytes, nextPid, method, orchOffset, redelivered,
                   calls, observed, fraudOffset, written>>
    /\ UNCHANGED <<fraudTopic, fraudPositive, fraudCheck>>
    /\ UNCHANGED <<settleVars, gwVars, runVars, callVars, mainVars>>

(***************************************************************************)
(* Fraud detection: processPayments reads (and commits) the next message   *)
(* of its own group; processMessage scores the three lifecycle types and,  *)
(* on a positive verdict, writes fraud.detected with the message's key to  *)
(* the topic its writer is configured with, the payments topic.            *)
(***************************************************************************)
ScoredTypesWithFraud ==
    {"payment.initiated", "payment.authorized", "payment.captured", "fraud.detected"}

\* processMessage returns at once unless event.Type is one of these
ScoredTypes == {"payment.initiated", "payment.authorized", "payment.captured"}

FraudProcess(part) ==
    /\ fraudOffset[part] < Len(topic[part])
    /\ fraudOffset' = [fraudOffset EXCEPT ![part] = @ + 1]
    /\ LET ev == topic[part][fraudOffset[part] + 1] IN
       IF ev.type \in ScoredTypes
       THEN \E isFraudulent \in BOOLEAN :
              /\ fraudPositive' = IF isFraudulent
                                  THEN fraudPositive \cup {<<part, fraudOffset[part] + 1>>}
                                  ELSE fraudPositive
              /\ isFraudulent => LogSize(topic) < MaxLog
              /\ IF isFraudulent
                 THEN \E sz \in 1..MaxMsgBytes, ok \in BOOLEAN :
                        LET fe == [key |-> ev.key, type |-> "fraud.detected",
                                   pid |-> ev.pid, status |-> "NONE", error |-> ""]
                            st == WriteMessages([topic |-> topic, lb |-> lbBytes],
                                                "fraud", fe, sz, ok)
                        IN  /\ topic' = st.topic
                            /\ lbBytes' = st.lb
                            /\ written' = IF ok
                                          THEN [written EXCEPT ![ev.pid] =
                                                   Append(@, "fraud.detected")]
                                          ELSE written
                 ELSE UNCHANGED <<topic, lbBytes, written>>
       ELSE UNCHANGED <<topic, lbBytes, written, fraudPositive>>
    /\ UNCHANGED <<nextPid, method, orchOffset, orchInflight, processed,
                   succeeded, redelivered, calls, observed, fraudSeen, fraudTopic,
                   fraudCheck>>
    /\ UNCHANGED <<settleVars, gwVars, runVars, callVars, mainVars>>

(***************************************************************************)
(* Fraud detection: FraudAnalyzer.AnalyzePayment.  Scores are float64; a   *)
(* literal score is the double nearest to its hundredths.                  *)
(***************************************************************************)
\* what a request can carry, and what the process can be configured with
FraudAmounts == {15000, 7500, 5000}
FraudLocations == {"Nigeria", "Ukraine", "France", "none"}
FraudMethods == {"CREDIT_CARD", "UPI", "BANK_TRANSFER", "CRYPTO", "WALLET"}
FraudThresholds == {50, 60, 70}

\* outcomes of rand.Float64(), in hundredths: each is a double in [0, 1)
RandDraws == {0, 40, 60, 80, 98}

Score(hundredths) == FFromDec(hundredths, 100)

\* x + y for x, y >= 0
FAdd(x, y) ==
    IF x.m = <<>> THEN y
    ELSE IF y.m = <<>> THEN x
    ELSE LET e == IF x.e < y.e THEN x.e ELSE y.e
         IN  FRound(BAdd(BShl(x.m, x.e - e), BShl(y.m, y.e - e)), 1, e)

checkAmount(payment) ==
    [type |-> "amount_check",
     score |-> IF payment.amount > 10000 THEN Score(80)
               ELSE IF payment.amount > 5000 THEN Score(50)
               ELSE Score(10)]

\* score := rand.Float64() * 0.5
checkVelocity(draw) ==
    [type |-> "velocity_check", score |-> FMul(Score(draw), FFromDec(5, 10))]

\* strings.Contains(strings.ToLower(location), "nigeria" or "ukraine"); "none"
\* stands for a payment without location metadata
checkGeolocation(payment) ==
    [type |-> "geolocation_check",
     score |-> IF payment.location = "none" THEN Score(50)
               ELSE IF payment.location \in {"Nigeria", "Ukraine"} THEN Score(90)
               ELSE Score(20)]

checkPaymentMethod(payment) ==
    [type |-> "payment_method_check",
     score |-> IF payment.method \in {"CREDIT_CARD", "DEBIT_CARD"} THEN Score(40)
               ELSE IF payment.method = "UPI" THEN Score(20)
               ELSE IF payment.method = "BANK_TRANSFER" THEN Score(10)
               ELSE IF payment.method = "CRYPTO" THEN Score(70)
               ELSE Score(50)]

\* the loop totalScore += check.Score, from 0
TotalScore(checks) ==
    LET RECURSIVE T(_)
        T(i) == IF i = 0 THEN FZero ELSE FAdd(T(i - 1), checks[i].score)
    IN  T(Len(checks))

IsFraudulentInclusive(riskScore, fraudThreshold) == ~FLess(riskScore, fraudThreshold)

\* isFraudulent := riskScore > a.fraudThreshold
IsFraudulent(riskScore, fraudThreshold) == FLess(fraudThreshold, riskScore)

FraudChecks(payment, draw) ==
    <<checkAmount(payment), checkVelocity(draw), checkGeolocation(payment),
      checkPaymentMethod(payment)>>

RiskScore(checks) == FDivInt(TotalScore(checks), Len(checks))

AnalyzePayment(payment, draw, fraudThreshold) ==
    [payment |-> payment, draw |-> draw, threshold |-> fraudThreshold,
     checks |-> FraudChecks(payment, draw),
     riskScore |-> RiskScore(FraudChecks(payment, draw)),
     isFraudulent |-> IsFraudulent(RiskScore(FraudChecks(payment, draw)),
                                   Score(fraudThreshold))]

\* a call of AnalyzePayment by a process configured with some threshold; the
\* function keeps no state between calls, so the first call stands for any
FraudAnalyze ==
    /\ fraudCheck = <<>>
    /\ \E a \in FraudAmounts, l \in FraudLocations, k \in FraudMethods,
          draw \in RandDraws, t \in FraudThresholds :
         fraudCheck' = <<AnalyzePayment([amount |-> a, location |-> l, method |-> k],
                                        draw, t)>>
    /\ UNCHANGED <<topic, lbBytes, nextPid, method, orchOffset, orchInflight,
                   processed, succeeded, redelivered, calls, observed,
                   fraudOffset, fraudSeen, written, fraudTopic, fraudPositive>>
    /\ UNCHANGED <<settleVars, gwVars, runVars, callVars, mainVars>>

NextFraud == FraudAnalyze

SpecFraud == Init /\ [][NextFraud]_vars

(***************************************************************************)
(* Payment engine: CardProcessor.Authorize.  The expiry of a card comes as *)
(* two strings, here sequences of decimal digits; the date is the year and *)
(* the month time.Now().Date() returns.                                    *)
(***************************************************************************)
\* what CardDetails.ExpiryMonth and CardDetails.ExpiryYear can hold
ExpiryMonths == {<<0, 1>>, <<0, 6>>, <<1, 2>>, <<6>>, <<1, 3>>}
ExpiryYears == {<<2, 5>>, <<2, 6>>, <<2, 7>>, <<2, 0, 2, 7>>}

\* the dates of a call
CurrentYears == {2025, 2026}
CurrentMonths == {1, 6, 12}

\* the number a string of digits spells
DigitsValue(s) ==
    LET RECURSIVE V(_)
        V(i) == IF i = 0 THEN 0 ELSE 10 * V(i - 1) + s[i]
    IN  V(Len(s))

\* time.Parse("2006", s).Year(), the error dropped: the layout takes exactly
\* four digits, and on an error the zero Time is returned, whose year is 1
ParseYear(s) == IF Len(s) = 4 THEN DigitsValue(s) ELSE 1

\* time.Parse("01", s).Month(), the error dropped: the layout takes exactly
\* two digits spelling 1..12, and the zero Time's month is January
ParseMonth(s) ==
    IF Len(s) = 2 /\ DigitsValue(s) \in 1..12 THEN DigitsValue(s) ELSE 1

\* cardYear.Year() < currentYear ||
\*     (cardYear.Year() == currentYear && int(cardMonth.Month()) < int(currentMonth))
CardExpired(cardYear, cardMonth, currentYear, currentMonth) ==
    cardYear < currentYear \/ (cardYear = currentYear /\ cardMonth < currentMonth)

\* Authorize with card details present; approve tells whether
\* rand.Float64() < 0.9
Authorize(card, currentYear, currentMonth, approve) ==
    IF CardExpired(ParseYear(<<2, 0>> \o card.ExpiryYear), ParseMonth(card.ExpiryMonth),
                   currentYear, currentMonth)
    THEN [Approved |-> FALSE, err |-> "card expired"]
    ELSE IF approve THEN [Approved |-> TRUE, err |-> ""]
    ELSE [Approved |-> FALSE, err |-> "payment failed"]

\* a call of Authorize; the function keeps no state between calls, so the
\* first call stands for any
CardAuthorize ==
    /\ cardAuth = <<>>
    /\ \E em \in ExpiryMonths, ey \in ExpiryYears, y \in CurrentYears,
          mo \in CurrentMonths, approve \in BOOLEAN :
         LET card == [ExpiryMonth |-> em, ExpiryYear |-> ey]
         IN  cardAuth' = <<[card |-> card, year |-> y, month |-> mo,
                            response |-> Authorize(card, y, mo, approve)]>>
    /\ UNCHANGED <<refundCalls, feeTrip>>
    /\ UNCHANGED <<orchVars, settleVars, gwVars, runVars, mainVars>>

NextCard == CardAuthorize

SpecCard == Init /\ [][NextCard]_vars

NextEngine ==
    \/ InitiatePayment
    \/ \E part \in Partitions : OrchRead(part)
    \/ \E part \in Partitions, i \in 1..MaxLog : OrchRedeliver(part, i)
    \/ \E m \in orchInflight : HandlePaymentInitiated(m)
    \/ \E m \in orchInflight : HandlePaymentAuthorizationRequested(m)
    \/ \E m \in orchInflight : HandlePaymentCaptureRequested(m)
    \/ \E m \in orchInflight : HandleUnknown(m)
    \/ \E part \in Partitions : FraudProcess(part)

SpecEngine == Init /\ [][NextEngine]_vars

(***************************************************************************)
(* The engine with refund requests reaching the topic: the gateway, the    *)
(* reader, the four handlers and the default branch, each message          *)
(* delivered once.                                                         *)
(***************************************************************************)
NextRefund ==
    \/ InitiatePayment
    \/ \E part \in Partitions : RefundRequested(part)
    \/ \E part \in Partitions : OrchRead(part)
    \/ \E m \in orchInflight : HandlePaymentInitiated(m)
    \/ \E m \in orchInflight : HandlePaymentAuthorizationRequested(m)
    \/ \E m \in orchInflight : HandlePaymentCaptureRequested(m)
    \/ \E m \in orchInflight : HandlePaymentRefundRequested(m)
    \/ \E m \in orchInflight : HandleUnknown(m)

SpecRefund == Init /\ [][NextRefund]_vars

----------------------------------------------------------------------------
(***************************************************************************)
(* Settlement engine: the repository (PostgreSQL).  Every query can fail.  *)
(***************************************************************************)
SumAmounts(S) ==
    LET RECURSIVE Sum(_)
        Sum(T) == IF T = {} THEN 0
                  ELSE LET x == CHOOSE y \in T : TRUE
                       IN  payments[x].amount + Sum(T \ {x})
    IN  Sum(S)

MarkPaymentForSettlementToggle(paymentID) ==
    IF paymentID \in settlementReady THEN settlementReady \ {paymentID}
    ELSE settlementReady \cup {paymentID}

\* UPDATE payments SET settlement_ready = true WHERE id = $2 AND status = 'CAPTURED'
MarkPaymentForSettlement(paymentID) ==
    IF payments[paymentID].created <= now /\ payments[paymentID].status = "CAPTURED"
    THEN settlementReady \cup {paymentID}
    ELSE settlementReady

\* WHERE settlement_ready = true AND status = 'CAPTURED' AND created_at BETWEEN $2 AND $3
Eligible(startDate, endDate) ==
    {p \in RowIds : /\ p \in settlementReady
                    /\ payments[p].status = "CAPTURED"
                    /\ payments[p].created >= startDate
                    /\ payments[p].created <= endDate}

\* GROUP BY merchant_id, currency: one summary per group, with the rows it sums
GetEligiblePayments(startDate, endDate) ==
    LET el     == Eligible(startDate, endDate)
        keys   == {<<payments[p].merchant, payments[p].currency>> : p \in el}
        rowsOf(k) == {p \in el : payments[p].merchant = k[1] /\ payments[p].currency = k[2]}
    IN  {[merchant |-> k[1], currency |-> k[2], total |-> SumAmounts(rowsOf(k)),
          count |-> Cardinality(rowsOf(k)), rows |-> rowsOf(k)] : k \in keys}

GetPaymentIDs(merchantID, currency, startDate, endDate) ==
    {p \in Eligible(startDate, endDate) :
        payments[p].merchant = merchantID /\ payments[p].currency = currency}

GetMerchantSettlementConfig(merchantID) ==
    [FeePercent |-> FFromDec(25, 10), MinimumSettlementAmount |-> FFromDec(100, 1)]

UpdateSettlementStatus(tbl, settlementID, status) ==
    [tbl EXCEPT ![settlementID].status = status]

(***************************************************************************)
(* Settlement engine: the mock repository.  No call fails, none stores     *)
(* anything, and the queries return made-up values.                        *)
(***************************************************************************)
\* two summaries for a merchant id drawn on the spot; no row stands behind them
MockGetEligiblePayments(startDate, endDate) ==
    {[merchant |-> "uuid.New()", currency |-> "USD", total |-> 100050, count |-> 5,
      rows |-> {}],
     [merchant |-> "uuid.New()", currency |-> "EUR", total |-> 75025, count |-> 3,
      rows |-> {}]}

\* five ids drawn on the spot: ids no row of the payments table has
MockGetPaymentIDs(merchantID, currency, startDate, endDate) ==
    {Len(PaymentRows) + i : i \in 1..5}

(***************************************************************************)
(* Settlement engine: the Repository interface, as the processor calls it. *)
(***************************************************************************)
\* whether a call returns nil (TRUE) or an error: the mock's never fail
RepositoryOutcomes == IF startup.repo = "mock" THEN {TRUE} ELSE BOOLEAN

RepositoryMarkPaymentForSettlement(paymentID) ==
    IF startup.repo = "mock" THEN settlementReady
    ELSE MarkPaymentForSettlement(paymentID)

RepositoryGetEligiblePayments(startDate, endDate) ==
    IF startup.repo = "mock" THEN MockGetEligiblePayments(startDate, endDate)
    ELSE GetEligiblePayments(startDate, endDate)

RepositoryGetPaymentIDs(merchantID, currency, startDate, endDate) ==
    IF startup.repo = "mock"
    THEN MockGetPaymentIDs(merchantID, currency, startDate, endDate)
    ELSE GetPaymentIDs(merchantID, currency, startDate, endDate)

RepositoryUpdateSettlementStatus(tbl, settlementID, status) ==
    IF startup.repo = "mock" THEN tbl
    ELSE UpdateSettlementStatus(tbl, settlementID, status)

(***************************************************************************)
(* Settlement engine: the processor.                                       *)
(***************************************************************************)
defaultFeePercent == FFromDec(25, 10)

BelowMinimumInclusive(total, minimum) == ~FLess(minimum, total)

\* paymentSummary.TotalAmount < config.MinimumSettlementAmount
BelowMinimum(total, minimum) == FLess(total, minimum)

\* the Settlement one iteration of CreateSettlementBatch builds; money is kept
\* in cents (the two-decimal value roundToTwoDecimals returns)
NewSettlement(g, ids) ==
    LET config     == GetMerchantSettlementConfig(g.merchant)
        total      == FFromDec(g.total, 100)
        feePercent == IF ~FLess(FZero, config.FeePercent)
                      THEN defaultFeePercent ELSE config.FeePercent
        feeValue   == FDivInt(FMul(total, feePercent), 100)
        feeAmount  == roundToTwoDecimals(feeValue)
        taxValue   == FMul(feeAmount, FFromDec(18, 100))
        taxAmount  == roundToTwoDecimals(taxValue)
        netValue   == FSub(FSub(total, feeAmount), taxAmount)
    IN  [merchant |-> g.merchant, currency |-> g.currency,
         amount |-> g.total, count |-> g.count,
         fee |-> RoundToTwoDecimalsCents(feeValue),
         tax |-> RoundToTwoDecimalsCents(taxValue),
         net |-> RoundToTwoDecimalsCents(netValue),
         status |-> "PENDING",
         stored |-> startup.repo = "db",  \* CreateSettlement inserted it
         paymentIDs |-> ids,      \* what GetPaymentIDs returned (the code drops it)
         summed |-> g.rows,       \* the rows SUM(amount) and COUNT(*) ran over
         batch |-> batchNo]

\* ProcessPayment: what the payments table's settlement_ready column holds
\* after an event with the given snapshot status, ok telling whether the
\* update went through
ProcessPayment(p, st, ok) ==
    IF st = "CAPTURED" /\ ok THEN RepositoryMarkPaymentForSettlement(p)
    ELSE settlementReady

\* consumePaymentEvents: one message through ProcessPayment
ConsumePaymentEvents ==
    /\ \E p \in RowIds, st \in SnapshotStatuses, ok \in BOOLEAN :
         settlementReady' = ProcessPayment(p, st, ok)
    /\ UNCHANGED <<payments, settlements, settlementEvents, now, nextTick,
                   tickPending, restarts, batchPc, batchEnd, batchSummaries,
                   batchOutcome, batchCreated, batchNo>>
    /\ UNCHANGED <<orchVars, gwVars, runVars, callVars, mainVars>>

\* consumePaymentEvents is handed again the payment.captured message of a
\* payment it has marked; the delivery is remembered with the number of
\* batch runs so far
ConsumeRedelivered ==
    /\ Cardinality(duplicates) < MaxDuplicates
    /\ \E p \in settlementReady, ok \in BOOLEAN :
         /\ settlementReady' = ProcessPayment(p, "CAPTURED", ok)
         /\ duplicates' = duplicates \cup {<<p, batchNo>>}
    /\ UNCHANGED <<payments, settlements, settlementEvents, now, nextTick,
                   tickPending, restarts, batchPc, batchEnd, batchSummaries,
                   batchOutcome, batchCreated, batchNo>>
    /\ UNCHANGED <<batcherTopic, batcherOffset, batcherSeen, ctxDone, loopPc>>
    /\ UNCHANGED <<orchVars, gwVars, callVars, mainVars>>

\* runSettlementBatch up to the loop of CreateSettlementBatch: the window and
\* the GetEligiblePayments query
BatchLoopWaitsNever(pc) == TRUE

\* the loop of createSettlementBatches calls runSettlementBatch itself: it is
\* at its select, ready to take a tick, only when the call has returned
BatchLoopWaits(pc) == pc = "idle"

RunSettlementBatch ==
    /\ batchPc = "start" \/ (BatchLoopWaits(batchPc) /\ tickPending)
    /\ tickPending' = IF batchPc = "idle" THEN FALSE ELSE tickPending
    /\ \E ok \in RepositoryOutcomes :
         LET found == IF ok THEN RepositoryGetEligiblePayments(now - Day, now) ELSE {}
         IN  /\ Len(settlements) + Cardinality(found) <= MaxSettlements
             /\ batchSummaries' = found
             /\ batchOutcome' = [g \in found |-> "todo"]
             /\ batchPc' = IF found = {} THEN "idle" ELSE "groups"
    /\ batchEnd' = now
    /\ batchCreated' = <<>>
    /\ batchNo' = batchNo + 1
    /\ UNCHANGED <<payments, settlementReady, settlements, settlementEvents,
                   now, nextTick, restarts>>
    /\ UNCHANGED <<orchVars, gwVars, runVars, callVars, mainVars>>

\* one iteration of the loop of CreateSettlementBatch
CreateSettlementBatchGroup ==
    /\ batchPc = "groups"
    /\ \E g \in batchSummaries, idsOk \in RepositoryOutcomes,
          insertOk \in RepositoryOutcomes :
         LET config  == GetMerchantSettlementConfig(g.merchant)
             ids     == RepositoryGetPaymentIDs(g.merchant, g.currency,
                                                batchEnd - Day, batchEnd)
             outcome == IF BelowMinimum(FFromDec(g.total, 100), config.MinimumSettlementAmount)
                        THEN "skipped"
                        ELSE IF ~idsOk THEN "idsError"
                        ELSE IF ~insertOk THEN "insertError"
                        ELSE "created"
             created == IF outcome = "created"
                        THEN Append(batchCreated, Len(settlements) + 1)
                        ELSE batchCreated
             rest    == batchSummaries \ {g}
         IN  /\ settlements' = IF outcome = "created"
                               THEN Append(settlements, NewSettlement(g, ids))
                               ELSE settlements
             /\ batchCreated' = created
             /\ batchSummaries' = rest
             /\ batchOutcome' = [batchOutcome EXCEPT ![g] = outcome]
             /\ batchPc' = IF rest # {} THEN "groups"
                           ELSE IF created = <<>> THEN "idle" ELSE "publish"
    /\ UNCHANGED <<payments, settlementReady, settlementEvents, now, nextTick,
                   tickPending, restarts, batchEnd, batchNo>>
    /\ UNCHANGED <<orchVars, gwVars, runVars, callVars, mainVars>>

AbortBatch ==
    /\ batchCreated' = <<>>
    /\ batchPc' = "idle"

\* the batch moves on to the next settlement it returned
NextSettlement ==
    /\ batchCreated' = Tail(batchCreated)
    /\ batchPc' = IF Tail(batchCreated) = <<>> THEN "idle" ELSE "publish"

ContinueAfterWriteAlways(wrOk) == TRUE

\* publishSettlementEvent returns when WriteMessages fails; ProcessSettlement
\* is called only after the write succeeded
ContinueAfterWrite(wrOk) == wrOk

\* publishSettlementEvent for the next settlement of the batch: the write to
\* the settlement topic
PublishSettlementEvent ==
    /\ batchPc = "publish"
    /\ \E wrOk \in BOOLEAN :
         /\ settlementEvents' = IF wrOk THEN Append(settlementEvents, Head(batchCreated))
                                ELSE settlementEvents
         /\ IF ContinueAfterWrite(wrOk)
            THEN batchPc' = "process" /\ UNCHANGED batchCreated
            ELSE NextSettlement
    /\ UNCHANGED <<payments, settlementReady, settlements, now, nextTick,
                   tickPending, restarts, batchEnd, batchSummaries,
                   batchOutcome, batchNo>>
    /\ UNCHANGED <<orchVars, gwVars, runVars, callVars, mainVars>>

\* ProcessSettlement, first half: the update of the status to PROCESSING
ProcessSettlementProcessing ==
    /\ batchPc = "process"
    /\ \E ok \in RepositoryOutcomes :
         IF ok
         THEN /\ settlements' = RepositoryUpdateSettlementStatus(
                                    settlements, Head(batchCreated), "PROCESSING")
              /\ batchPc' = "complete"
              /\ UNCHANGED batchCreated
         ELSE /\ NextSettlement
              /\ UNCHANGED settlements
    /\ UNCHANGED <<payments, settlementReady, settlementEvents, now, nextTick,
                   tickPending, restarts, batchEnd, batchSummaries,
                   batchOutcome, batchNo>>
    /\ UNCHANGED <<orchVars, gwVars, runVars, callVars, mainVars>>

\* ProcessSettlement, second half: the simulated transfer and the update of
\* the status to COMPLETED
ProcessSettlementCompleted ==
    /\ batchPc = "complete"
    /\ \E ok \in RepositoryOutcomes :
         settlements' = IF ok
                        THEN RepositoryUpdateSettlementStatus(
                                 settlements, Head(batchCreated), "COMPLETED")
                        ELSE settlements
    /\ NextSettlement
    /\ UNCHANGED <<payments, settlementReady, settlementEvents, now, nextTick,
                   tickPending, restarts, batchEnd, batchSummaries,
                   batchOutcome, batchNo>>
    /\ UNCHANGED <<orchVars, gwVars, runVars, callVars, mainVars>>

\* time passes; the ticker of createSettlementBatches fires every 24 hours.
\* A batch is taken to run in less than half a day: the clock moves between
\* batches only.
AdvanceTime ==
    /\ now < MaxTime
    /\ batchPc = "idle"
    /\ now' = now + 1
    /\ tickPending' = (tickPending \/ now + 1 = nextTick)
    /\ nextTick' = IF now + 1 = nextTick THEN nextTick + Day ELSE nextTick
    /\ UNCHANGED <<payments, settlementReady, settlements, settlementEvents,
                   restarts, batchPc, batchEnd, batchSummaries, batchOutcome,
                   batchCreated, batchNo>>
    /\ UNCHANGED <<orchVars, gwVars, runVars, callVars, mainVars>>

\* time passes while runSettlementBatch is running: the ticker sends into
\* its channel of capacity one, and drops the tick when one is waiting there
TickDuringBatch ==
    /\ now < MaxBatchTime
    /\ batchPc \in {"groups", "publish", "process", "complete"}
    /\ now' = now + 1
    /\ tickPending' = (tickPending \/ now + 1 = nextTick)
    /\ nextTick' = IF now + 1 = nextTick THEN nextTick + Day ELSE nextTick
    /\ UNCHANGED <<payments, settlementReady, settlements, settlementEvents,
                   restarts, batchPc, batchEnd, batchSummaries, batchOutcome,
                   batchCreated, batchNo>>
    /\ UNCHANGED <<orchVars, gwVars, runVars, callVars, mainVars>>

\* the process is stopped and started again: Start runs the batch at once
Restart ==
    /\ restarts < MaxRestarts
    /\ restarts' = restarts + 1
    /\ batchPc' = "start"
    /\ nextTick' = now + Day
    /\ tickPending' = FALSE
    /\ batchSummaries' = {}
    /\ batchCreated' = <<>>
    /\ UNCHANGED <<payments, settlementReady, settlements, settlementEvents,
                   now, batchEnd, batchOutcome, batchNo>>
    /\ UNCHANGED <<orchVars, gwVars, runVars, callVars, mainVars>>

\* the process is stopped and started again, and main chooses the repository
\* anew: the mock when MOCK_MODE is "true", the database when the connection
\* succeeds, and the mock again when it does not
Main ==
    /\ restarts < MaxRestarts
    /\ restarts' = restarts + 1
    /\ \E mockMode \in BOOLEAN, dbFailed \in BOOLEAN :
         /\ mockMode => ~dbFailed       \* no connection is attempted in mock mode
         /\ startup' = [mockMode |-> mockMode, dbFailed |-> dbFailed,
                        repo |-> IF mockMode \/ dbFailed THEN "mock" ELSE "db",
                        eventsBefore |-> Len(settlementEvents)]
    /\ batchPc' = "start"
    /\ nextTick' = now + Day
    /\ tickPending' = FALSE
    /\ batchSummaries' = {}
    /\ batchCreated' = <<>>
    /\ UNCHANGED <<payments, settlementReady, settlements, settlementEvents,
                   now, batchEnd, batchOutcome, batchNo>>
    /\ UNCHANGED <<orchVars, gwVars, runVars, callVars>>

NextSettle ==
    \/ ConsumePaymentEvents
    \/ RunSettlementBatch
    \/ CreateSettlementBatchGroup
    \/ PublishSettlementEvent
    \/ ProcessSettlementProcessing
    \/ ProcessSettlementCompleted
    \/ AdvanceTime
    \/ Restart

SpecSettle == Init /\ [][NextSettle]_vars

(***************************************************************************)
(* The settlement engine with the choice main makes at every start.        *)
(***************************************************************************)
NextStartup ==
    \/ ConsumePaymentEvents
    \/ RunSettlementBatch
    \/ CreateSettlementBatchGroup
    \/ PublishSettlementEvent
    \/ ProcessSettlementProcessing
    \/ ProcessSettlementCompleted
    \/ AdvanceTime
    \/ Main

SpecStartup == Init /\ [][NextStartup]_vars

(***************************************************************************)
(* The settlement engine with runs that outlast the ticker's interval.     *)
(***************************************************************************)
NextTick ==
    \/ ConsumePaymentEvents
    \/ RunSettlementBatch
    \/ CreateSettlementBatchGroup
    \/ PublishSettlementEvent
    \/ ProcessSettlementProcessing
    \/ ProcessSettlementCompleted
    \/ AdvanceTime
    \/ TickDuringBatch

SpecTick == Init /\ [][NextTick]_vars

(***************************************************************************)
(* The settlement engine with at-least-once delivery to its consumer.      *)
(***************************************************************************)
NextDeliver ==
    \/ ConsumePaymentEvents
    \/ ConsumeRedelivered
    \/ RunSettlementBatch
    \/ CreateSettlementBatchGroup
    \/ PublishSettlementEvent
    \/ ProcessSettlementProcessing
    \/ ProcessSettlementCompleted
    \/ AdvanceTime

SpecDeliver == Init /\ [][NextDeliver]_vars

(***************************************************************************)
(* The fee formula of CreateSettlementBatch as a function of the total and *)
(* of the merchant's configured fee percent; money in cents, the percent   *)
(* in tenths.                                                              *)
(***************************************************************************)
\* totals and configured fee percents of a call
FeeTotals == {10000 + 1515 * k : k \in 0..59}
ConfigFeeTenths == {0, 25}

\* feePercent := config.FeePercent; if feePercent <= 0 { feePercent = p.defaultFeePercent }
FeePercentUsed(configFee) ==
    IF ~FLess(FZero, configFee) THEN defaultFeePercent ELSE configFee

\* roundToTwoDecimals(paymentSummary.TotalAmount * feePercent / 100)
FeeCents(total, feePercent) ==
    RoundToTwoDecimalsCents(FDivInt(FMul(total, feePercent), 100))

\* roundToTwoDecimals(feeAmount * 0.18)
TaxCents(feeCents) ==
    RoundToTwoDecimalsCents(FMul(FFromDec(feeCents, 100), FFromDec(18, 100)))

\* roundToTwoDecimals(paymentSummary.TotalAmount - feeAmount - taxAmount)
NetCents(total, feeCents, taxCents) ==
    RoundToTwoDecimalsCents(FSub(FSub(total, FFromDec(feeCents, 100)),
                                 FFromDec(taxCents, 100)))

FeeFormulaOf(total, feeCents) ==
    [fee |-> feeCents, tax |-> TaxCents(feeCents),
     net |-> NetCents(total, feeCents, TaxCents(feeCents))]

FeeFormula(totalCents, configFeeTenths) ==
    FeeFormulaOf(FFromDec(totalCents, 100),
                 FeeCents(FFromDec(totalCents, 100),
                          FeePercentUsed(FFromDec(configFeeTenths, 10))))

\* the formula applied to a total, and then again to the net it gave, for
\* the same merchant; it keeps no state between calls, so the first pair of
\* calls stands for any
FeeRoundTrip ==
    /\ Len(feeTrip) < 2
    /\ IF feeTrip = <<>>
       THEN \E t \in FeeTotals, f \in ConfigFeeTenths :
              feeTrip' = <<[total |-> t, configFeeTenths |-> f,
                            result |-> FeeFormula(t, f)]>>
       ELSE feeTrip' = Append(feeTrip,
                              [total |-> feeTrip[1].result.net,
                               configFeeTenths |-> feeTrip[1].configFeeTenths,
                               result |-> FeeFormula(feeTrip[1].result.net,
                                                     feeTrip[1].configFeeTenths)])
    /\ UNCHANGED <<cardAuth, refundCalls>>
    /\ UNCHANGED <<orchVars, settleVars, gwVars, runVars, mainVars>>

NextFee == FeeRoundTrip

SpecFee == Init /\ [][NextFee]_vars

(***************************************************************************)
(* The three consumer groups on the stream.  A topic is known by its name: *)
(* the engine and the fraud service take theirs from KAFKA_PAYMENTS_TOPIC, *)
(* the settlement engine takes its from KAFKA_PAYMENT_TOPIC.               *)
(***************************************************************************)
\* the defaults of the three configurations
EnginePaymentsTopic == "payments"
FraudPaymentsTopic == "payments"
BatcherPaymentTopic == "payment-events"

\* what the settlement engine's KAFKA_PAYMENT_TOPIC can make its reader read:
\* the default when unset, or the engine's topic
BatcherTopicNames == {BatcherPaymentTopic, EnginePaymentsTopic}

\* the log of the topic of a name; the gateway, the engine and the fraud
\* service write to the engine's topic, nothing writes to another one
TopicLog(name) ==
    IF name = EnginePaymentsTopic THEN topic ELSE [p \in Partitions |-> <<>>]

\* the settlement engine starts: LoadConfig, then the reader of its group on
\* the configured topic with StartOffset LastOffset (the group has committed
\* nothing, so it begins at the end of each partition)
StartBatcher ==
    /\ batcherTopic = ""
    /\ \E name \in BatcherTopicNames :
         /\ batcherTopic' = name
         /\ batcherOffset' = [p \in Partitions |-> Len(TopicLog(name)[p])]
    /\ UNCHANGED <<duplicates, batcherSeen, ctxDone, loopPc>>
    /\ UNCHANGED <<orchVars, settleVars, gwVars, callVars, mainVars>>

\* consumePaymentEvents: ReadMessage returns the next message of a partition
\* of the reader's topic, and the event goes through ProcessPayment
BatcherRead(part) ==
    /\ batcherTopic # ""
    /\ batcherOffset[part] < Len(TopicLog(batcherTopic)[part])
    /\ batcherOffset' = [batcherOffset EXCEPT ![part] = @ + 1]
    /\ batcherSeen' = batcherSeen \cup {<<part, batcherOffset[part] + 1>>}
    /\ LET ev == TopicLog(batcherTopic)[part][batcherOffset[part] + 1]
       IN  \E ok \in BOOLEAN : settlementReady' = ProcessPayment(ev.pid, ev.status, ok)
    /\ UNCHANGED <<payments, settlements, settlementEvents, now, nextTick,
                   tickPending, restarts, batchPc, batchEnd, batchSummaries,
                   batchOutcome, batchCreated, batchNo>>
    /\ UNCHANGED <<duplicates, batcherTopic, ctxDone, loopPc>>
    /\ UNCHANGED <<orchVars, gwVars, callVars, mainVars>>

NextStream ==
    \/ InitiatePayment
    \/ \E part \in Partitions : OrchRead(part)
    \/ \E m \in orchInflight : HandlePaymentInitiated(m)
    \/ \E m \in orchInflight : HandlePaymentAuthorizationRequested(m)
    \/ \E m \in orchInflight : HandlePaymentCaptureRequested(m)
    \/ \E m \in orchInflight : HandleUnknown(m)
    \/ \E part \in Partitions : FraudProcess(part)
    \/ StartBatcher
    \/ \E part \in Partitions : BatcherRead(part)

\* every process is started, and a reader with a message to return returns it
SpecStream ==
    /\ Init /\ [][NextStream]_vars
    /\ WF_vars(StartBatcher)
    /\ \A part \in Partitions : WF_vars(BatcherRead(part))
    /\ \A part \in Partitions : WF_vars(FraudProcess(part))

(***************************************************************************)
(* Shutdown.  The signal handler cancels the root context; the reader      *)
(* loops look at it in their select, between two reads; the settlement     *)
(* engine's Start waits for it, closes the reader and the writer and       *)
(* returns to main, which returns: the process ends with its goroutines.   *)
(***************************************************************************)
\* SIGINT or SIGTERM: the goroutine of main calls cancel()
Cancel ==
    /\ ~ctxDone
    /\ ctxDone' = TRUE
    /\ UNCHANGED <<duplicates, batcherTopic, batcherOffset, batcherSeen, loopPc>>
    /\ UNCHANGED <<orchVars, settleVars, gwVars, callVars, mainVars>>

SelectDoneNever(done) == FALSE

\* select with a default: the case <-ctx.Done() is taken when the context is
\* done, the default (the read) otherwise
SelectDone(done) == done

\* one pass through the select of a reader loop
LoopSelect(w) ==
    /\ loopPc[w] = "select"
    /\ loopPc' = [loopPc EXCEPT ![w] = IF SelectDone(ctxDone) THEN "exited" ELSE "read"]
    /\ UNCHANGED <<duplicates, batcherTopic, batcherOffset, batcherSeen, ctxDone>>
    /\ UNCHANGED <<orchVars, settleVars, gwVars, callVars, mainVars>>

\* what ReadMessage can return: a message, the 5 s timeout of the settlement
\* engine's consumer (context.DeadlineExceeded), or an error, context.Canceled
\* included
ReadOutcomes(w) ==
    IF w = "consumer" THEN {"message", "timeout", "error"} ELSE {"message", "error"}

\* ReadMessage returns and the loop goes back to its select: after handing
\* the message to a goroutine (engine, fraud service), after ProcessPayment
\* (settlement engine), or after logging the error
ReadMessageReturns(w) ==
    /\ loopPc[w] = "read"
    /\ loopPc' = [loopPc EXCEPT ![w] = "select"]
    /\ \E outcome \in ReadOutcomes(w) :
         IF w = "consumer" /\ outcome = "message"
         THEN \E p \in RowIds, st \in SnapshotStatuses, ok \in BOOLEAN :
                settlementReady' = ProcessPayment(p, st, ok)
         ELSE UNCHANGED settlementReady
    /\ UNCHANGED <<payments, settlements, settlementEvents, now, nextTick,
                   tickPending, restarts, batchPc, batchEnd, batchSummaries,
                   batchOutcome, batchCreated, batchNo>>
    /\ UNCHANGED <<duplicates, batcherTopic, batcherOffset, batcherSeen, ctxDone>>
    /\ UNCHANGED <<orchVars, gwVars, callVars, mainVars>>

\* createSettlementBatches at its select with the context done: it returns
TickLoopExits ==
    /\ batchPc = "idle"
    /\ SelectDone(ctxDone)
    /\ batchPc' = "exited"
    /\ UNCHANGED <<payments, settlementReady, settlements, settlementEvents, now,
                   nextTick, tickPending, restarts, batchEnd, batchSummaries,
                   batchOutcome, batchCreated, batchNo>>
    /\ UNCHANGED <<orchVars, gwVars, runVars, callVars, mainVars>>

\* SettlementHandler.Start is released by <-h.ctx.Done(), closes the reader
\* and the writer and returns; main returns, and the consumer and the batch
\* goroutine end with the process, wherever they are
StartReturns ==
    /\ loopPc["start"] = "select"
    /\ ctxDone
    /\ loopPc' = [loopPc EXCEPT !["start"] = "exited", !["consumer"] = "exited"]
    /\ batchPc' = "exited"
    /\ UNCHANGED <<payments, settlementReady, settlements, settlementEvents, now,
                   nextTick, tickPending, restarts, batchEnd, batchSummaries,
                   batchOutcome, batchCreated, batchNo>>
    /\ UNCHANGED <<duplicates, batcherTopic, batcherOffset, batcherSeen, ctxDone>>
    /\ UNCHANGED <<orchVars, gwVars, callVars, mainVars>>

NextShutdown ==
    \/ Cancel
    \/ \E w \in ReaderLoops : LoopSelect(w)
    \/ \E w \in ReaderLoops : ReadMessageReturns(w)
    \/ RunSettlementBatch
    \/ CreateSettlementBatchGroup
    \/ PublishSettlementEvent
    \/ ProcessSettlementProcessing
    \/ ProcessSettlementCompleted
    \/ TickLoopExits
    \/ StartReturns

\* a loop at its select goes through it, a read returns once the context is
\* done, and Start goes on once released; nothing makes the signal arrive,
\* and nothing is assumed of the speed of a batch run
SpecShutdown ==
    /\ Init /\ [][NextShutdown]_vars
    /\ \A w \in ReaderLoops : WF_vars(LoopSelect(w))
    /\ \A w \in ReaderLoops : WF_vars(ctxDone /\ ReadMessageReturns(w))
    /\ WF_vars(StartReturns)

----------------------------------------------------------------------------
(***************************************************************************)
(* The payment state machine: steps between the statuses of consecutive    *)
(* events of one payment (an event may repeat the status of the one        *)
(* before it).                                                             *)
(***************************************************************************)
StatusStep ==
    { <<"INITIATED", "AUTHORIZED">>, <<"INITIATED", "FAILED">>,
      <<"AUTHORIZED", "CAPTURED">>,  <<"AUTHORIZED", "FAILED">>,
      <<"CAPTURED", "REFUNDED">>,    <<"CAPTURED", "SETTLED">>,
      <<"CAPTURED", "FAILED">> }

ValidPath(seq) ==
    /\ (Len(seq) > 0 => seq[1] = "INITIATED")
    /\ \A i \in 1..(Len(seq) - 1) :
           seq[i] = seq[i + 1] \/ <<seq[i], seq[i + 1]>> \in StatusStep

\* C1: for every payment the statuses in the events the engine emitted, in the
\* order of emission, form a prefix of a path of the state machine (Initiated,
\* Authorized, Captured, then Refunded or Settled; Failed from any of the first
\* three), whatever is redelivered; nothing follows a terminal status.
C1_StatusPathValid == \A p \in PaymentIds : ValidPath(observed[p])

\* C2: processing a message that was processed before (a redelivery) makes no
\* Authorize, Capture or Refund call.
C2_RedeliveryMakesNoCall ==
    [][\A m \in processed :
          (m \in orchInflight /\ m \notin orchInflight') => calls' = calls]_orchVars

\* C4: every event on the payments topic is keyed by its payment id, and all
\* events with one key are on one partition.
C4_OnePartitionPerPayment ==
    /\ \A p \in Partitions : \A i \in 1..Len(topic[p]) :
           topic[p][i].key = topic[p][i].pid
    /\ \A p1, p2 \in Partitions :
         \A i \in 1..Len(topic[p1]), j \in 1..Len(topic[p2]) :
             topic[p1][i].key = topic[p2][j].key => p1 = p2

\* C5: the payment-engine group's offset is past a message only if that message
\* has been processed with all its outcome events written.
C5_OffsetOnlyAfterSuccess ==
    \A p \in Partitions : \A i \in 1..orchOffset[p] : <<p, i>> \in succeeded

\* C6: once the engine has consumed fraud.detected for a payment it makes no
\* processor call and emits no event for that payment.
C6_FraudIsTerminal ==
    [][\A p \in fraudSeen :
          calls'[p] = calls[p] /\ observed'[p] = observed[p]]_orchVars

----------------------------------------------------------------------------
(***************************************************************************)
(* Settlement properties.  Money is compared in cents.                     *)
(***************************************************************************)
\* n/d rounded half away from zero, for n >= 0 and d > 0
RoundHalfAway(n, d) == (2 * n + d) \div (2 * d)

\* round2(T * 2.5 / 100) and round2(fee * 0.18) in exact decimal arithmetic
ExactFee(total) == RoundHalfAway(total * 25, 1000)

ExactTax(fee) == RoundHalfAway(fee * 18, 100)

MinimumSettlementCents == 100 * 100

\* the settlements the latest batch inserted for the group of summary g
CreatedFor(g) ==
    {i \in DOMAIN settlements : /\ settlements[i].batch = batchNo
                                /\ settlements[i].merchant = g.merchant
                                /\ settlements[i].currency = g.currency}

EventsFor(g) ==
    {k \in DOMAIN settlementEvents : settlementEvents[k] \in CreatedFor(g)}

\* C3: across all batch runs, the run at every (re)start included, no payment
\* row is counted in the gross amount and payment count of two settlements.
C3_NoPaymentInTwoSettlements ==
    \A i, j \in DOMAIN settlements :
        i # j => settlements[i].summed \cap settlements[j].summed = {}

\* C7: when a settlement is COMPLETED every payment it contains has status
\* SETTLED, and no later batch selects such a payment again.
C7_CompletedMeansSettled ==
    \A i \in DOMAIN settlements :
        settlements[i].status = "COMPLETED" =>
            /\ \A p \in settlements[i].summed : payments[p].status = "SETTLED"
            /\ \A j \in DOMAIN settlements :
                   settlements[j].batch > settlements[i].batch =>
                       settlements[j].summed \cap settlements[i].summed = {}

\* C8: a settlement's gross amount and payment count are the sum and the
\* number of the payments of its batch (the ids GetPaymentIDs returns for
\* it), all of its merchant and currency, also when the consumer marks
\* payments settlement-ready while the batch runs.
C8_GrossMatchesContained ==
    \A i \in DOMAIN settlements :
        LET s == settlements[i]
        IN  /\ s.amount = SumAmounts(s.paymentIDs)
            /\ s.count = Cardinality(s.paymentIDs)
            /\ \A p \in s.paymentIDs : /\ payments[p].merchant = s.merchant
                                       /\ payments[p].currency = s.currency

\* C9: for every settlement of total T at the configured 2.5 percent,
\* fee = round2(T * 2.5 / 100), tax = round2(fee * 0.18) and
\* net = round2(T - fee - tax) with round2 rounding half away from zero, so
\* net + fee + tax is within one cent of the gross amount; a total of
\* 1000.25 gives fee 25.01, tax 4.50, net 970.74.
C9_FeeFormula ==
    \A i \in DOMAIN settlements :
        LET s == settlements[i]
        IN  /\ s.fee = ExactFee(s.amount)
            /\ s.tax = ExactTax(s.fee)
            /\ s.net = s.amount - s.fee - s.tax
            /\ s.net + s.fee + s.tax - s.amount \in {-1, 0, 1}
            /\ s.amount = 100025 => s.fee = 2501 /\ s.tax = 450 /\ s.net = 97074

\* C10 (as claimed): once the batch loop has passed a group, a group whose
\* total is at least the minimum has exactly one settlement, and a group
\* below the minimum has no settlement and no settlement event.
C10_ExactlyOnePerQualifyingGroup ==
    \A g \in DOMAIN batchOutcome :
        batchOutcome[g] # "todo" =>
            IF g.total >= MinimumSettlementCents
            THEN Cardinality(CreatedFor(g)) = 1
            ELSE CreatedFor(g) = {} /\ EventsFor(g) = {}

\* C10 (amended): a group below the minimum is skipped with no settlement
\* and no settlement event; a group whose total is at least the minimum
\* (a total equal to it included) is never skipped for its amount and has
\* exactly one settlement when its payment-id query and its insert succeed,
\* and none when either fails.
C10_OnePerQualifyingGroupUnlessQueryFails ==
    \A g \in DOMAIN batchOutcome :
        LET o == batchOutcome[g]
        IN  /\ o = "skipped" <=> (o # "todo" /\ g.total < MinimumSettlementCents)
            /\ o = "skipped" => CreatedFor(g) = {} /\ EventsFor(g) = {}
            /\ o = "created" <=> Cardinality(CreatedFor(g)) = 1
            /\ o \in {"todo", "idsError", "insertError"} => CreatedFor(g) = {}

\* a batch in which the group with total exactly 100.00 got its settlement
\* and a group below the minimum was skipped
C10_Witness ==
    /\ \E g \in DOMAIN batchOutcome :
           /\ g.total = MinimumSettlementCents
           /\ batchOutcome[g] = "created"
           /\ Cardinality(CreatedFor(g)) = 1
    /\ \E h \in DOMAIN batchOutcome :
           h.total < MinimumSettlementCents /\ batchOutcome[h] = "skipped"

----------------------------------------------------------------------------
(***************************************************************************)
(* The life of one settlement.                                             *)
(***************************************************************************)
SettlementStatusStep ==
    { <<"PENDING", "PROCESSING">>, <<"PROCESSING", "COMPLETED">>,
      <<"PROCESSING", "FAILED">> }

\* the settlement's event has been written to the settlement topic
SettlementEmitted(sid) == \E k \in DOMAIN settlementEvents : settlementEvents[k] = sid

\* C11: for every settlement the order is: persisted as PENDING, then its
\* event written to the settlement topic, then PROCESSING, then COMPLETED or
\* FAILED.  An event is written only for a persisted settlement, the status
\* leaves PENDING (the transfer is attempted) only after the event was
\* written, a persisted settlement stays persisted, and its status never
\* moves backwards and never skips PROCESSING.
C11_SettlementOrder ==
    [][ /\ \A k \in DOMAIN settlementEvents' :
             /\ settlementEvents'[k] \in DOMAIN settlements'
             /\ k \in DOMAIN settlementEvents
                  \/ /\ settlementEvents'[k] \in DOMAIN settlements
                     /\ settlements[settlementEvents'[k]].status = "PENDING"
        /\ \A sid \in DOMAIN settlements' :
             /\ sid \notin DOMAIN settlements => settlements'[sid].status = "PENDING"
             /\ settlements'[sid].status # "PENDING" => SettlementEmitted(sid)
        /\ \A sid \in DOMAIN settlements :
             /\ sid \in DOMAIN settlements'
             /\ \/ settlements'[sid].status = settlements[sid].status
                \/ <<settlements[sid].status, settlements'[sid].status>>
                       \in SettlementStatusStep ]_vars

\* a settlement was persisted, its event written, and its status moved
\* through PROCESSING to COMPLETED, while another one is still PENDING
C11_Witness ==
    /\ \E sid \in DOMAIN settlements :
         settlements[sid].status = "COMPLETED" /\ SettlementEmitted(sid)
    /\ \E sid \in DOMAIN settlements :
         settlements[sid].status = "PENDING" /\ SettlementEmitted(sid)

----------------------------------------------------------------------------
(***************************************************************************)
(* The payment as its events show it.  The engine keeps no payment record: *)
(* a payment's state is the snapshot in the latest event written for it.   *)
(***************************************************************************)
LatestStatus(seq) == IF seq = <<>> THEN "INITIATED" ELSE seq[Len(seq)]

\* the processing of message m ends in this step
Handled(m) == m \in orchInflight /\ m \notin orchInflight'

\* C12: a redelivered event leaves the payment's state as the first delivery
\* left it: the processing of a message that was already processed with all
\* its events written does not change the status of any payment's latest
\* snapshot.
C12_RedeliveryKeepsFinalState ==
    [][\A m \in succeeded :
          Handled(m) =>
              \A p \in PaymentIds :
                  LatestStatus(observed'[p]) = LatestStatus(observed[p])]_orchVars

\* the status a command expects the payment to be in
ExpectedStatus ==
    [t \in {"payment.initiated", "payment.authorization.requested",
            "payment.capture.requested", "payment.refund.requested"} |->
        IF t = "payment.capture.requested" THEN "AUTHORIZED"
        ELSE IF t = "payment.refund.requested" THEN "CAPTURED"
        ELSE "INITIATED"]

\* C13: a command that does not match the payment's current status (a
\* capture request for a payment already CAPTURED, any command for a FAILED
\* one) is dropped: no processor call, no event written, nothing emitted.
C13_MismatchedCommandDropped ==
    [][\A m \in orchInflight :
          LET ev == topic[m[1]][m[2]] IN
          ( /\ Handled(m)
            /\ ev.type \in DOMAIN ExpectedStatus
            /\ LatestStatus(observed[ev.pid]) # ExpectedStatus[ev.type] )
          => (calls' = calls /\ topic' = topic /\ observed' = observed)]_orchVars

\* C14: a refund request for a payment in INITIATED (its snapshot and the
\* payment's latest event both say so) makes no Refund call, does not emit
\* payment.refunded, and what it emits is payment.refund.failed.
C14_RefundOfInitiatedRejected ==
    [][\A m \in orchInflight :
          LET ev == topic[m[1]][m[2]] IN
          ( /\ Handled(m)
            /\ ev.type = "payment.refund.requested"
            /\ ev.status = "INITIATED"
            /\ LatestStatus(observed[ev.pid]) = "INITIATED" )
          => /\ calls'[ev.pid].refund = calls[ev.pid].refund
             /\ written'[ev.pid] # Append(written[ev.pid], "payment.refunded")
             /\ written'[ev.pid] # written[ev.pid]
                  => written'[ev.pid] =
                        Append(written[ev.pid], "payment.refund.failed")]_orchVars

----------------------------------------------------------------------------
(***************************************************************************)
(* The happy path of one payment.                                          *)
(***************************************************************************)
\* every message on the topic has been read and handled with all its writes
\* done, once each, and the fraud screener raised nothing for the payment
CleanRun(p) ==
    /\ redelivered = 0
    /\ orchInflight = {}
    /\ \A part \in Partitions : orchOffset[part] = Len(topic[part])
    /\ processed \subseteq succeeded
    /\ \A i \in 1..Len(observed[p]) : observed[p][i] # "FAILED"
    /\ \A i \in 1..Len(written[p]) : written[p][i] # "fraud.detected"

\* the payment was initiated and the engine has handled that
Started(p) == p < nextPid /\ observed[p] # <<>>

C16_DeclineErrorText ==
    \A part \in Partitions : \A i \in 1..Len(topic[part]) :
        LET ev == topic[part][i] IN
        ( /\ ev.type = "payment.authorization.failed"
          /\ HasProcessor(method[ev.pid])
          /\ ev.error # "card expired" )
        => (ev.status = "FAILED" /\ ev.error = "Card declined by issuer")

----------------------------------------------------------------------------
(***************************************************************************)
(* The fraud screener's output.                                            *)
(***************************************************************************)
\* the fraud.detected events on the payments topic
FraudDetectedOnPayments ==
    {<<p, i>> \in Partitions \X (1..MaxLog) :
        i <= Len(topic[p]) /\ topic[p][i].type = "fraud.detected"}

\* C17: the fraud.detected events are on the fraud topic, one for each scored
\* event with a positive verdict and keyed by its payment id; no other event
\* is written by the screener to any topic (none for a negative verdict,
\* none on the payments topic).
C17_FraudDetectedOnFraudTopic ==
    /\ Len(fraudTopic) = Cardinality(fraudPositive)
    /\ \A k \in DOMAIN fraudTopic :
           fraudTopic[k].type = "fraud.detected" /\ fraudTopic[k].key = fraudTopic[k].pid
    /\ FraudDetectedOnPayments = {}

----------------------------------------------------------------------------
(***************************************************************************)
(* The fraud analyzer's arithmetic, against exact arithmetic in hundredths *)
(* and millionths.                                                         *)
(***************************************************************************)
Hundredths(x) == GoRound(FMul(x, FFromDec(100, 1)))

Millionths(x) == GoRound(FMul(x, FFromDec(1000000, 1)))

\* the sum of the four check scores of a FraudCheck, in hundredths
ScoreSum(c) ==
    Hundredths(c.checks[1].score) + Hundredths(c.checks[2].score)
        + Hundredths(c.checks[3].score) + Hundredths(c.checks[4].score)

\* the payment of the example: amount 15,000, location Nigeria, credit card
ExamplePayment(c) ==
    c.payment = [amount |-> 15000, location |-> "Nigeria", method |-> "CREDIT_CARD"]

RiskIsMean(c) ==
    Len(c.checks) = 4 /\ Millionths(c.riskScore) = 2500 * ScoreSum(c)

\* the verdict follows the strict comparison; a risk score equal to the
\* threshold as a float64 is not fraudulent
VerdictIsStrict(c) ==
    /\ ScoreSum(c) > 4 * c.threshold => c.isFraudulent
    /\ ScoreSum(c) < 4 * c.threshold => ~c.isFraudulent
    /\ (~FLess(c.riskScore, Score(c.threshold)) /\ ~FLess(Score(c.threshold), c.riskScore))
           => ~c.isFraudulent

\* the velocity score is half the random draw, below 0.5
VelocityBelowHalf(c) ==
    2 * Hundredths(c.checks[2].score) = c.draw /\ Hundredths(c.checks[2].score) < 50

----------------------------------------------------------------------------
(***************************************************************************)
(* API gateway, request by request: POST /payments/initiate and            *)
(* POST /refunds as the handlers treat them, with what the gateway's       *)
(* writer put on the payments topic and what the client was answered.      *)
(***************************************************************************)
\* merchants and idempotency keys a request can carry ("" is no key)
Merchants == {"M1", "M2"}
IdempotencyKeys == {"", "k1", "k2"}

\* what a request can carry as its API key (X-API-Key, or Authorization:
\* Bearer): nothing, the key of the middleware's table, a key it does not hold
RequestAPIKeys == {"", "key1", "key9"}

\* AuthMiddleware.apiKeys: API key -> merchant id
apiKeys == [k \in {"key1"} |-> "M1"]

\* Authenticate: the merchant id it stores in the context, "" when it aborts
\* the request with 401 (missing or unknown key)
Authenticate(apiKey) ==
    IF apiKey \in DOMAIN apiKeys THEN apiKeys[apiKey] ELSE ""

\* Payment.MerchantID as InitiatePayment sets it: req.MerchantID, the body's
MerchantID(merchant, contextMerchant) == merchant

\* InitiatePayment behind RequireAuth: 401 without a valid key; then bind the
\* body (400 on failure), take a fresh payment id, build the INITIATED payment
\* from the request, write payment.initiated keyed by the id (500 on failure),
\* answer 200.  An event remembers the merchant the key authenticated, which
\* the message itself does not carry.
GatewayInitiatePayment ==
    /\ Len(gwResponses) < MaxRequests
    /\ \E apiKey \in RequestAPIKeys, bindOk \in BOOLEAN, merchant \in Merchants,
          idem \in IdempotencyKeys, wrOk \in BOOLEAN :
         LET paymentID == gwIds + 1
             event == [type |-> "payment.initiated", key |-> paymentID,
                       id |-> paymentID,
                       merchant |-> MerchantID(merchant, Authenticate(apiKey)),
                       idempotencyKey |-> idem, status |-> "INITIATED",
                       authenticated |-> Authenticate(apiKey)]
         IN  IF Authenticate(apiKey) = ""
             THEN /\ gwResponses' = Append(gwResponses,
                        [route |-> "/payments/initiate", code |-> 401, id |-> 0])
                  /\ UNCHANGED <<gwEvents, gwIds>>
             ELSE IF ~bindOk
             THEN /\ gwResponses' = Append(gwResponses,
                        [route |-> "/payments/initiate", code |-> 400, id |-> 0])
                  /\ UNCHANGED <<gwEvents, gwIds>>
             ELSE /\ gwIds' = paymentID
                  /\ gwEvents' = IF wrOk THEN Append(gwEvents, event) ELSE gwEvents
                  /\ gwResponses' = Append(gwResponses,
                        [route |-> "/payments/initiate",
                         code |-> IF wrOk THEN 200 ELSE 500,
                         id |-> IF wrOk THEN paymentID ELSE 0])
    /\ UNCHANGED <<orchVars, settleVars, runVars, callVars, mainVars>>

\* RequestRefund behind RequireAuth: 401 without a valid key; then bind the
\* body (400 on failure), take a fresh refund id and answer 200 with status
\* REFUNDED; nothing is written to the topic
RequestRefund ==
    /\ Len(gwResponses) < MaxRequests
    /\ \E apiKey \in RequestAPIKeys, bindOk \in BOOLEAN, paymentID \in 1..MaxRequests :
         IF Authenticate(apiKey) = ""
         THEN /\ gwResponses' = Append(gwResponses,
                    [route |-> "/refunds", code |-> 401, id |-> 0])
              /\ UNCHANGED gwIds
         ELSE IF ~bindOk
         THEN /\ gwResponses' = Append(gwResponses,
                    [route |-> "/refunds", code |-> 400, id |-> 0])
              /\ UNCHANGED gwIds
         ELSE /\ gwIds' = gwIds + 1
              /\ gwResponses' = Append(gwResponses,
                    [route |-> "/refunds", code |-> 200, id |-> paymentID])
    /\ UNCHANGED gwEvents
    /\ UNCHANGED <<orchVars, settleVars, runVars, callVars, mainVars>>

NextGateway ==
    \/ GatewayInitiatePayment
    \/ RequestRefund

SpecGateway == Init /\ [][NextGateway]_vars

\* the accepted refunds, and the refund requests on the topic
AcceptedRefunds ==
    {k \in DOMAIN gwResponses :
        gwResponses[k].route = "/refunds" /\ gwResponses[k].code = 200}

RefundRequestEvents ==
    {j \in DOMAIN gwEvents : gwEvents[j].type = "payment.refund.requested"}

\* C19: every accepted POST /refunds has put exactly one
\* payment.refund.requested on the payments topic, keyed by the target
\* payment id: there are as many such events as accepted refunds, and each
\* accepted refund has one with its payment id as the key.
C19_AcceptedRefundIsPublished ==
    /\ Cardinality(RefundRequestEvents) = Cardinality(AcceptedRefunds)
    /\ \A k \in AcceptedRefunds :
         \E j \in RefundRequestEvents : gwEvents[j].key = gwResponses[k].id

\* C20: two payment.initiated events of one merchant with the same non-empty
\* idempotency key carry the same payment id.
C20_IdempotencyKeyOnePayment ==
    \A i, j \in DOMAIN gwEvents :
        ( /\ gwEvents[i].type = "payment.initiated"
          /\ gwEvents[j].type = "payment.initiated"
          /\ gwEvents[i].merchant = gwEvents[j].merchant
          /\ gwEvents[i].idempotencyKey # ""
          /\ gwEvents[i].idempotencyKey = gwEvents[j].idempotencyKey )
        => gwEvents[i].id = gwEvents[j].id

----------------------------------------------------------------------------
(***************************************************************************)
(* The ticker and the batch run.                                           *)
(***************************************************************************)
\* an execution of runSettlementBatch is in progress
BatchRunning == batchPc \in {"groups", "publish", "process", "complete"}

\* C21: two batch runs never overlap: a run begins only when no run is in
\* progress, and a tick that fires while a run is in progress starts nothing
\* and touches nothing of the run; it waits in the ticker's channel until the
\* run has ended (it is delayed), or is dropped when a tick already waits
\* there (it is skipped).
C21_TicksNeverOverlap ==
    [][ /\ batchNo' # batchNo => ~BatchRunning
        /\ (BatchRunning /\ nextTick' # nextTick) =>
               /\ tickPending'
               /\ batchNo' = batchNo
               /\ <<batchPc, batchEnd, batchSummaries, batchOutcome, batchCreated,
                    settlements, settlementEvents>>' =
                  <<batchPc, batchEnd, batchSummaries, batchOutcome, batchCreated,
                    settlements, settlementEvents>> ]_vars

\* a run that began at the start is still in progress two intervals later:
\* the first tick waits in the channel and the second one was dropped
C21_Witness ==
    /\ BatchRunning
    /\ tickPending
    /\ now - batchEnd >= 2 * Day

\* the payments of the groups the latest run skipped for their amount
SkippedRows == UNION {g.rows : g \in {h \in DOMAIN batchOutcome : batchOutcome[h] = "skipped"}}

\* C22: a captured, settlement-ready payment that a run left unsettled because
\* its group was below the minimum is still captured and settlement-ready
\* when the next tick's run begins, and is in the window that run selects
\* from.
C22_UnsettledSelectedByNextTick ==
    [][ (batchPc = "idle" /\ batchNo' # batchNo) =>
            \A p \in SkippedRows :
                /\ payments[p].status = "CAPTURED"
                /\ p \in settlementReady
                /\ p \in Eligible(now - Day, now) ]_vars

----------------------------------------------------------------------------
(***************************************************************************)
(* Repeated deliveries to the settlement engine's consumer.                *)
(***************************************************************************)
\* C23: feeding a payment.captured message again to the settlement engine's
\* consumer has the effect of feeding it once: the repeated delivery changes
\* nothing of the payments and settlements tables (the payment is
\* settlement-ready as after one delivery), and every settlement, those of
\* payments delivered more than once included, counts each payment once in
\* its gross amount and payment count.
C23_RepeatedCapturedIsOneDelivery ==
    [][ /\ duplicates' # duplicates => settleVars' = settleVars
        /\ \A i \in DOMAIN settlements' :
               /\ settlements'[i].amount = SumAmounts(settlements'[i].summed)
               /\ settlements'[i].count = Cardinality(settlements'[i].summed) ]_vars

\* a run made a settlement from a payment whose captured event had been
\* delivered again before the run began
C23_Witness ==
    \E i \in DOMAIN settlements : \E d \in duplicates :
        /\ d[1] \in settlements[i].summed
        /\ d[2] < settlements[i].batch
        /\ settlements[i].count = Cardinality(settlements[i].summed)

----------------------------------------------------------------------------
(***************************************************************************)
(* The stream as each consumer group sees it.                              *)
(***************************************************************************)
\* a payment.captured event is at offset i of partition p of the engine's topic
CapturedAt(p, i) == i <= Len(topic[p]) /\ topic[p][i].type = "payment.captured"

\* C24: with the default configuration every payment.captured event the
\* engine has written is eventually delivered to the settlement engine's
\* consumer and to the fraud service's consumer.
C24_CapturedReachesEveryGroup ==
    \A p \in Partitions, i \in 1..MaxLog :
        (CapturedAt(p, i) /\ batcherTopic = BatcherPaymentTopic)
            ~> (<<p, i>> \in batcherSeen /\ fraudOffset[p] >= i)

----------------------------------------------------------------------------
(***************************************************************************)
(* The engine's goroutines.                                                *)
(***************************************************************************)
\* C25: within the engine, messages of one partition are processed one after
\* the other: at no time are two messages of the same partition in
\* processing (read, and their processMessage not yet finished), and a
\* message is processed only when every earlier message of its partition
\* has been.
C25_PartitionSerialized ==
    [][ /\ \A m, n \in orchInflight' : m[1] = n[1] => m = n
        /\ \A m \in orchInflight :
               Handled(m) => \A i \in 1..(m[2] - 1) : <<m[1], i>> \in processed ]_orchVars

----------------------------------------------------------------------------
(***************************************************************************)
(* The two outputs of an approved authorization.                           *)
(***************************************************************************)
\* C26: every payment.capture.requested on the payments topic is preceded,
\* on its own partition, by the payment.authorized of the same payment (the
\* engine wrote the two in this order to one partition, the second only
\* with the first one written), and the authorization request they come from
\* counts as handled only with both written.
C26_AuthorizedThenCaptureRequested ==
    /\ \A p \in Partitions : \A i \in 1..Len(topic[p]) :
           topic[p][i].type = "payment.capture.requested" =>
               \E j \in 1..(i - 1) :
                   /\ topic[p][j].type = "payment.authorized"
                   /\ topic[p][j].pid = topic[p][i].pid
    /\ \A p \in Partitions : \A i \in 1..orchOffset[p] :
           (topic[p][i].type = "payment.authorization.requested"
                /\ <<p, i>> \in processed /\ <<p, i>> \notin succeeded)
               => \A k \in 1..Len(written[topic[p][i].pid]) :
                      written[topic[p][i].pid][k] \notin
                          {"payment.authorized", "payment.capture.requested"}

----------------------------------------------------------------------------
(***************************************************************************)
(* Permanent errors.                                                       *)
(***************************************************************************)
\* the failure event that matches a command
FailureType ==
    [t \in {"payment.authorization.requested", "payment.capture.requested",
            "payment.refund.requested"} |->
        IF t = "payment.authorization.requested" THEN "payment.authorization.failed"
        ELSE IF t = "payment.capture.requested" THEN "payment.capture.failed"
        ELSE "payment.refund.failed"]

\* the events on the payments topic of a type for a payment with an error text
FailureEvents(t) ==
    {<<p, i>> \in Partitions \X (1..MaxLog) :
        i <= Len(t[p]) /\ t[p][i].status = "FAILED" /\ t[p][i].error # ""}

\* C27: the handling of a command whose payment-method kind has no adapter
\* (a permanent error, invalid payment method) emits exactly one event: the
\* matching failure event, with status FAILED and the reason in
\* metadata.error, and no success outcome.
C27_PermanentErrorEmitsOneFailure ==
    [][\A m \in orchInflight :
          LET ev == topic[m[1]][m[2]] IN
          ( /\ Handled(m)
            /\ ev.type \in DOMAIN FailureType
            /\ ~HasProcessor(method[ev.pid]) )
          => /\ written'[ev.pid] = Append(written[ev.pid], FailureType[ev.type])
             /\ observed'[ev.pid] = Append(observed[ev.pid], "FAILED")
             /\ Cardinality(FailureEvents(topic')) = Cardinality(FailureEvents(topic)) + 1
             /\ calls' = calls]_orchVars

----------------------------------------------------------------------------
(***************************************************************************)
(* The outcome of ProcessSettlement.                                       *)
(***************************************************************************)
\* ProcessSettlement returns in this step, for the settlement at the head of
\* the batch
ProcessSettlementReturns ==
    batchPc \in {"process", "complete"} /\ batchPc' \in {"idle", "publish"}

\* C28: when ProcessSettlement returns without having completed the transfer
\* of a settlement, the settlement's status is FAILED (not PENDING, not
\* PROCESSING) and every payment it contains is CAPTURED.
C28_FailedTransferSetsFailed ==
    [][ (ProcessSettlementReturns
            /\ settlements'[Head(batchCreated)].status # "COMPLETED")
        => /\ settlements'[Head(batchCreated)].status = "FAILED"
           /\ \A p \in settlements'[Head(batchCreated)].summed :
                  payments'[p].status = "CAPTURED" ]_vars

----------------------------------------------------------------------------
(***************************************************************************)
(* Shutdown properties.                                                    *)
(***************************************************************************)
\* the settlement engine's process has ended
BatcherStopped == loopPc["start"] = "exited"

\* C29 (the settlement engine's half): when the process ends after a cancel,
\* no batch run is cut short: every group the run selected has been gone
\* through, and every settlement the run persisted has had its event
\* written and its transfer finished (its publishSettlementEvent has
\* returned).
C29_InFlightBatchFinishesBeforeExit ==
    BatcherStopped => (batchSummaries = {} /\ batchCreated = <<>>)

\* every worker loop has returned
AllExited == (\A w \in WorkerLoops : loopPc[w] = "exited") /\ batchPc = "exited"

\* C30: once the root context is cancelled, every worker loop eventually
\* exits: the engine's Start, the fraud service's processPayments, the
\* settlement engine's consumer goroutine, its batch goroutine and its
\* Start, whatever ReadMessage returns and also when a read is blocked at
\* the time of the cancel.
C30_WorkersExitAfterCancel == ctxDone ~> AllExited

\* the context was cancelled and every loop has exited, the batch goroutine
\* having created a settlement before
C30_Witness ==
    /\ AllExited
    /\ ctxDone
    /\ settlements # <<>>

----------------------------------------------------------------------------
(***************************************************************************)
(* One batch run, group by group.                                          *)
(***************************************************************************)
\* the run is inside CreateSettlementBatch's loop or the publishing loop
InRun == batchPc \in {"groups", "publish", "process", "complete"}

\* a step of the run's goroutine (the consumer and the clock go on beside it)
RunStep == <<batchPc, batchSummaries, batchCreated>>' # <<batchPc, batchSummaries, batchCreated>>

\* C31: within one run a failure while handling one group (payment-id
\* lookup, settlement insert, event write, status update) does not stop the
\* run: a step of the loop of CreateSettlementBatch takes exactly one group
\* off the groups still to do and keeps every settlement already returned; a
\* step of the publishing loop takes at most the settlement it is working on
\* off the ones still to publish; and the run is over only when no group and
\* no settlement is left.
C31_GroupFailureDoesNotAbortOthers ==
    [][ (InRun /\ RunStep /\ restarts' = restarts) =>
          /\ batchPc = "groups" =>
               /\ \E g \in batchSummaries :
                    /\ batchSummaries' = batchSummaries \ {g}
                    /\ batchOutcome'[g] # "todo"
               /\ batchCreated' = batchCreated
                    \/ \E sid \in DOMAIN settlements' :
                         batchCreated' = Append(batchCreated, sid)
          /\ batchPc # "groups" =>
               /\ batchSummaries' = batchSummaries
               /\ batchCreated' \in {batchCreated, Tail(batchCreated)}
          /\ batchPc' = "idle" => batchSummaries' = {} /\ batchCreated' = <<>>
          /\ batchPc' \in {"publish", "process", "complete"} => batchCreated' # <<>>
      ]_vars

\* a run returned two settlements, for two groups above the minimum; the
\* event of the first was not written and it stayed PENDING, the second got
\* its event and its transfer
C31_Witness ==
    /\ batchPc = "idle"
    /\ \E i, j \in DOMAIN settlements :
         /\ i < j
         /\ settlements[i].batch = settlements[j].batch
         /\ settlements[i].status = "PENDING" /\ ~SettlementEmitted(i)
         /\ settlements[j].status = "COMPLETED" /\ SettlementEmitted(j)

----------------------------------------------------------------------------
(***************************************************************************)
(* What the settlement engine's consumer marks.                            *)
(***************************************************************************)
\* the message a step of consumePaymentEvents took from partition part
ConsumedFrom(part) == TopicLog(batcherTopic)[part][batcherOffset[part] + 1]

\* C32: the consumer marks a payment settlement-ready only when the event
\* it consumes is of type payment.captured; consuming an event of any other
\* type leaves every payment's settlement-ready flag as it was.
C32_OnlyCapturedMarks ==
    [][ \A part \in Partitions :
          (/\ batcherTopic # ""
           /\ batcherOffset'[part] = batcherOffset[part] + 1
           /\ ConsumedFrom(part).type # "payment.captured")
          => settlementReady' = settlementReady ]_vars

----------------------------------------------------------------------------
(***************************************************************************)
(* What the fraud service scores.                                          *)
(***************************************************************************)
\* the fraud.detected events on the payments topic
FraudDetectedCount ==
    Cardinality({<<p, i>> \in Partitions \X (1..MaxLog) :
                    i <= Len(topic[p]) /\ topic[p][i].type = "fraud.detected"})

\* C33: the fraud service scores, and can emit for, only events of type
\* payment.initiated, payment.authorized and payment.captured: every message
\* with a verdict is of one of these types, a step that reads any other
\* message (a fraud.detected event included) writes nothing and records no
\* verdict, and there are never more fraud.detected events than positive
\* verdicts on lifecycle events.
C33_OnlyLifecycleEventsScored ==
    [][ /\ \A m \in fraudPositive' :
             topic'[m[1]][m[2]].type \in
                 {"payment.initiated", "payment.authorized", "payment.captured"}
        /\ FraudDetectedCount' <= Cardinality(fraudPositive')
        /\ \A part \in Partitions :
             (/\ fraudOffset'[part] = fraudOffset[part] + 1
              /\ topic[part][fraudOffset[part] + 1].type \notin
                     {"payment.initiated", "payment.authorized", "payment.captured"})
             => topic' = topic /\ fraudPositive' = fraudPositive ]_vars

\* the fraud service has read a fraud.detected event it wrote itself
C33_Witness ==
    \E part \in Partitions :
        \E i \in 1..fraudOffset[part] : topic[part][i].type = "fraud.detected"

----------------------------------------------------------------------------
(***************************************************************************)
(* The card adapter and the expiry of a card.                              *)
(***************************************************************************)
\* the year and the month the card's strings spell ("27" and "2027" are the
\* same year)
CardExpiryYear(card) ==
    IF Len(card.ExpiryYear) = 2 THEN 2000 + DigitsValue(card.ExpiryYear)
    ELSE DigitsValue(card.ExpiryYear)

CardExpiryMonth(card) == DigitsValue(card.ExpiryMonth)

\* C34: Authorize rejects with "card expired", not approved, every card
\* whose expiry (year, month) is earlier than the current (year, month), and
\* never rejects for expiry a card whose expiry is the current month or
\* later.
C34_ExpiredCardRejected ==
    \A k \in DOMAIN cardAuth :
        LET c == cardAuth[k]
            y == CardExpiryYear(c.card)
            m == CardExpiryMonth(c.card)
        IN  m \in 1..12 =>
              IF y < c.year \/ (y = c.year /\ m < c.month)
              THEN ~c.response.Approved /\ c.response.err = "card expired"
              ELSE c.response.err # "card expired"

----------------------------------------------------------------------------
(***************************************************************************)
(* The snapshot an emitted event carries.                                  *)
(***************************************************************************)
\* the two events are about the same payment, with the same amount
SamePayment(e, src) ==
    /\ e.pid = src.pid
    /\ e.merchant = src.merchant
    /\ e.currency = src.currency
    /\ e.amount = src.amount

\* C35: every event the engine emits carries the payment id, the merchant
\* id, the currency and the amount of the event its handler was given, on
\* every path: the lifecycle events, the failure events, and payment.refunded
\* for a full or a partial refund.
C35_EmittedEventKeepsAmount ==
    [][ \A m \in orchInflight \ orchInflight' :
          \A p \in Partitions :
            \A i \in (Len(topic[p]) + 1)..Len(topic'[p]) :
              SamePayment(topic'[p][i], topic[m[1]][m[2]]) ]_vars

\* the topic holds a failure event and the payment.refunded of a partial
\* refund
C35_Witness ==
    /\ \E p \in Partitions : \E i \in 1..Len(topic[p]) :
         topic[p][i].status = "FAILED"
    /\ \E p \in Partitions : \E i \in 1..Len(topic[p]) :
         /\ topic[p][i].type = "payment.refunded"
         /\ topic[p][i].refundAmount # <<>>
         /\ topic[p][i].refundAmount[1] > 0
         /\ topic[p][i].refundAmount[1] < topic[p][i].amount

----------------------------------------------------------------------------
(***************************************************************************)
(* What is handed to processor.Refund.                                     *)
(***************************************************************************)
\* the sum of the amounts refunded for payment pid
TotalRefunded(pid) ==
    LET RECURSIVE T(_)
        T(k) == IF k = 0 THEN 0
                ELSE T(k - 1) + (IF refundCalls[k].pid = pid
                                 THEN refundCalls[k].amount ELSE 0)
    IN  T(Len(refundCalls))

\* C38: the amount passed to processor.Refund is positive and not more than
\* the payment's amount, whatever metadata.refund_amount holds, and the
\* total refunded for one payment never exceeds the payment's amount.
C38_RefundWithinPayment ==
    \A k \in DOMAIN refundCalls :
        /\ refundCalls[k].amount > 0
        /\ refundCalls[k].amount <= refundCalls[k].paymentAmount
        /\ TotalRefunded(refundCalls[k].pid) <= refundCalls[k].paymentAmount

----------------------------------------------------------------------------
(***************************************************************************)
(* The fee formula at a fee of 0.                                          *)
(***************************************************************************)
\* C36: for a merchant whose configured fee percent is 0 the formula gives
\* fee 0, tax 0 and a net equal to the amount, and applied again to that
\* net it returns the same amount.
C36_ZeroFeeIsIdentity ==
    \A k \in DOMAIN feeTrip :
        feeTrip[k].configFeeTenths = 0 =>
            /\ feeTrip[k].result.fee = 0
            /\ feeTrip[k].result.tax = 0
            /\ feeTrip[k].result.net = feeTrip[k].total
            /\ feeTrip[k].result.net = feeTrip[1].total


----------------------------------------------------------------------------
(***************************************************************************)
(* The settlement engine under fair scheduling: the goroutine of           *)
(* createSettlementBatches is not starved, so a batch run that can take    *)
(* its next step takes it, and the clock moves on between runs.  Nothing   *)
(* is assumed of the outcome of a query or of a write, nor of the arrival  *)
(* of payment events.                                                      *)
(***************************************************************************)
\* the steps of the batch goroutine outside the loop of CreateSettlementBatch
AfterGroups ==
    \/ RunSettlementBatch
    \/ PublishSettlementEvent
    \/ ProcessSettlementProcessing
    \/ ProcessSettlementCompleted

NextSettleFair ==
    \/ ConsumePaymentEvents
    \/ CreateSettlementBatchGroup
    \/ AfterGroups
    \/ AdvanceTime

\* weak fairness of the batch goroutine and of the clock.  An iteration of
\* the loop of CreateSettlementBatch is enabled exactly when batchPc is
\* "groups" and the loop runs over a finite slice, so weak fairness of the
\* iteration is stated as: the goroutine is not in the loop forever.
SpecSettleFair ==
    /\ Init /\ [][NextSettleFair]_vars
    /\ WF_vars(AfterGroups)
    /\ []<>(batchPc # "groups")
    /\ WF_vars(AdvanceTime)

\* the Settlement with this id has been inserted
Persisted(sid) == sid <= Len(settlements)

\* it has reached one of the two final statuses
Finished(sid) ==
    /\ Persisted(sid)
    /\ settlements[sid].status \in {"COMPLETED", "FAILED"}

\* C37: every Settlement a tick persists eventually has status COMPLETED or
\* FAILED; none stays PENDING or PROCESSING forever, whatever write or status
\* update fails on the way
C37_PersistedSettlementFinishes ==
    \A sid \in 1..MaxSettlements : Persisted(sid) ~> Finished(sid)


----------------------------------------------------------------------------
\* the process runs on the mock repository because the database could not be
\* reached, MOCK_MODE not being "true"
FellBackToMock == ~startup.mockMode /\ startup.dbFailed

\* the settlement events written since the process started
WrittenSinceStart ==
    {settlementEvents[i] : i \in (startup.eventsBefore + 1)..Len(settlementEvents)}

\* the Settlement was built from rows of the payments table that were marked
\* settlement-ready
BuiltFromPaymentStore(sid) ==
    /\ settlements[sid].summed # {}
    /\ settlements[sid].summed \subseteq RowIds
    /\ settlements[sid].paymentIDs \subseteq RowIds

\* C39: when MOCK_MODE is not enabled and the database connection fails at
\* startup, the settlement engine writes no settlement event; every event it
\* writes describes a Settlement built from settlement-ready payments of the
\* payment store
C39_NoEventsWithoutDatabase ==
    FellBackToMock =>
        /\ WrittenSinceStart = {}
        /\ \A sid \in WrittenSinceStart : BuiltFromPaymentStore(sid)


----------------------------------------------------------------------------
\* the payment.initiated events the gateway wrote
InitiatedEvents ==
    {j \in DOMAIN gwEvents : gwEvents[j].type = "payment.initiated"}

\* C40: the merchant id of a payment.initiated event is the merchant the
\* request's API key authenticated: no event comes from a request without a
\* valid key, and a merchant id placed in the body does not make the payment
\* another merchant's
C40_MerchantIsAuthenticatedMerchant ==
    \A j \in InitiatedEvents :
        /\ gwEvents[j].authenticated # ""
        /\ gwEvents[j].merchant = gwEvents[j].authenticated

=============================================================================
